---- MODULE Spec2Model ----
(***************************************************************************)
(* The xArm driver (arm/comm.go, arm/xarm.go) as a state machine.          *)
(*                                                                         *)
(* Every caller is a goroutine that runs one exported operation of the     *)
(* driver at a time.  A goroutine's position is its call stack: a sequence *)
(* of activation records, one per Go function being executed, the last one *)
(* the function that runs.  A step of a goroutine is one action; the       *)
(* granularity is one step per access to state another goroutine can see   *)
(* (x.closed, x.started, x.conn, the move lock, the socket, the context).  *)
(*                                                                         *)
(* The control box and the network are the environment: the box answers    *)
(* every frame with a response of its choice, and every socket operation   *)
(* may fail.                                                               *)
(***************************************************************************)
EXTENDS Integers, Sequences, FiniteSets, TLC

(***************************************************************************)
(* Bounds of the model.                                                    *)
(***************************************************************************)
NumCallers == 2      \* goroutines calling into the driver
MaxCalls == 1        \* operations each goroutine starts
MaxFails == 1        \* socket operations the network lets fail
MaxDevErrs == 1      \* responses in which the box sets an error/warning bit
NumSteps == 2        \* longest generated step sequence
MaxPolls == 1        \* polls of motionStopped that report "still moving"
MaxByte == 255       \* the largest code an error report carries

Procs == 1..NumCallers

(***************************************************************************)
(* Program constants.                                                      *)
(***************************************************************************)
errCodeCollision == 31     \* 0x1F
servoMotionMode == 1
StateNotReady == 16        \* 0x10

\* xarm.go: degrees per second, degrees per second per second, and hertz
maxSpeed == 180
minSpeed == 3
maxAccel == 1145
defaultMoveHz == 100
interwaypointAccel == 600

\* gripper.go, goToPosition: the tolerance around the goal, the stall
\* distance, and the timeout and the sleep of a turn in milliseconds
goalTolerance == 6
stallTolerance == 3
goToTimeout == 2000
pollSleep == 10

armBoxErrorMap ==
    {1, 2, 3} \cup (11..17) \cup {19} \cup (21..30) \cup {errCodeCollision} \cup (32..39)

armBoxWarnMap == {11, 12, 13, 14}

VARIABLES
    conn,        \* x.conn: 0 is nil, otherwise the id of a socket
    closed,      \* x.closed
    started,     \* x.started
    moveLock,    \* x.moveLock: 0 is unlocked, otherwise the holder
    nDials,      \* sockets dialled so far; socket ids are 1..nDials
    openSocks,   \* ids of the sockets that are open
    opMu,        \* x.opMgr's mutex: 0 or the holder
    curOp,       \* x.opMgr's current operation: 0 or the goroutine running it
    cancelled,   \* cancelled[p]: the context of p's operation is done
    stack,       \* stack[p]: p's call stack
    ret,         \* ret[p]: the value the last callee of p returned
    sent,        \* sent[p]: frames p wrote during its current operation
    wbErr,       \* wbErr[p]: the error p's last call of writeBytes returned
    opn,         \* opn[p]: the operation p runs or ran last
    calls,       \* calls[p]: operations p has started
    faulty,      \* the network and the box of this run may fail
    fails,       \* socket failures so far
    devErrs,     \* error/warning responses so far
    xSpeed,      \* x.speed, in thousandths of a radian per second
    xAcceleration, \* x.acceleration, in thousandths of a radian per second squared
    confLock,    \* x.confLock: 0 is unlocked, otherwise the holder
    tid,         \* x.tid
    wire,        \* the frames written to the sockets, each as its bytes, in order
    rxBuf        \* the bytes the box has sent on x.conn that are not read yet

xarm == <<conn, closed, started, moveLock>>
net == <<nDials, openSocks>>
mgr == <<opMu, curOp, cancelled>>
proc == <<stack, ret, sent, wbErr, opn, calls>>
env == <<faulty, fails, devErrs>>
conf == <<xSpeed, xAcceleration, confLock>>
codec == <<tid, wire, rxBuf>>
vars == <<xarm, net, mgr, proc, env, conf, codec>>

(***************************************************************************)
(* Values.                                                                 *)
(***************************************************************************)
\* A returned (cmd, error) pair.  wrote: the frame of the call reached the wire.
Ok(params, wrote) == [err |-> "none", params |-> params, wrote |-> wrote]
Err(e, wrote) == [err |-> e, params |-> <<>>, wrote |-> wrote]
NoRet == Ok(<<>>, FALSE)

\* An activation record: the function, the position in it, and its locals.
Fr(fn, pc, reg, arg, chk) ==
    [fn |-> fn, pc |-> pc, reg |-> reg, arg |-> arg, chk |-> chk,
     n |-> 0, d |-> "none", r |-> NoRet, log |-> <<>>, rep |-> <<>>]

Last(stk) == stk[Len(stk)]
Rst(stk) == SubSeq(stk, 1, Len(stk) - 1)
Top(p) == Last(stack[p])
At(p, fn, pc) == stack[p] # <<>> /\ Top(p).fn = fn /\ Top(p).pc = pc

\* a goroutine's stack and the value its last callee returned
R(stk, r) == [stk |-> stk, ret |-> r]
\* the top record becomes f and calls callees
PutF(stk, f, callees) == R(Append(Rst(stk), f) \o callees, NoRet)
\* the top record returns r
PopF(stk, r) == R(Rst(stk), r)

\* send(ctx, c, checkError) as a callee
SendFr(reg, arg, chk) == Fr("send", "entry", reg, arg, chk)

(***************************************************************************)
(* The control box: the responses it may give to a frame.  params[0] is    *)
(* the state byte, params[1] and params[2] the error and warning code of a *)
(* GetError response, params[1] the motion state of a GetState response.   *)
(***************************************************************************)
StateBytes(mayErr) == {0, StateNotReady} \cup (IF mayErr THEN {32, 64} ELSE {})

\* the (error code, warning code) pairs the box reports
Codes == {<<0, 0>>, <<1, 0>>, <<0, 11>>, <<errCodeCollision, 0>>, <<errCodeCollision, 11>>}

Responses(reg, mayErr) ==
    IF reg = "GetError"
    THEN {<<s, c[1], c[2]>> : s \in {0, StateNotReady}, c \in Codes}
    ELSE IF reg = "GetState"
    THEN {<<s, m, 0>> : s \in StateBytes(mayErr) \ {StateNotReady}, m \in {1, 2}}
    ELSE {<<s, 0, 0>> : s \in StateBytes(mayErr) \ {StateNotReady}}

(***************************************************************************)
(* The steps of a goroutine that touch nothing another goroutine can see   *)
(* (they read the value a callee returned and the goroutine's own locals)  *)
(* are the Local* operators: one per Go function, from the record on top   *)
(* of the stack and the returned value r to the stack and returned value   *)
(* after the step.  n is the number of frames the goroutine has written.   *)
(***************************************************************************)

\* state&(1<<6|1<<5) != 0
HasErrWarnBit(state) == ((state \div 32) % 4) # 0

\* getErrorParams as a callee: newCmd(GetError), then writeBytes
GetErrorFrs == <<Fr("getErrorParams", "wb", "GetError", 0, FALSE),
                 Fr("writeBytes", "lock", "GetError", 0, FALSE)>>

\* getErrorParams after writeBytes: len(resp.params) < 3 is an error
LocalGetError(stk, r, n) ==
    IF r.err # "none" THEN PopF(stk, r)
    ELSE IF Len(r.params) < 3 THEN PopF(stk, Err("bad", TRUE))
    ELSE PopF(stk, r)

\* a decodeError that wants both codes in their tables
decodeError_Mutant(params) ==
    IF params[2] \in armBoxErrorMap /\ params[3] \in armBoxWarnMap THEN "known" ELSE "unknown"

\* decodeError(params): the kind of error it returns
decodeError(params) ==
    LET errCode == params[2]
        warnCode == params[3]
        isErr == errCode \in armBoxErrorMap
        isWarn == warnCode \in armBoxWarnMap
    IN  IF isErr \/ isWarn THEN "known" ELSE "unknown"

\* a send that recovers after every report
sendOutcome_NoCollision(params) == [err |-> decodeError(params), reset |-> TRUE]

\* a send that recovers only after a report with a code of the tables
sendOutcome_KnownOnly(params) ==
    IF params[2] = errCodeCollision
    THEN [err |-> "collision", reset |-> FALSE]
    ELSE [err |-> decodeError(params), reset |-> decodeError(params) = "known"]

\* what send does with an error report: the error it returns and whether it
\* calls resetErrorState
sendOutcome(params) ==
    IF params[2] = errCodeCollision
    THEN [err |-> "collision", reset |-> FALSE]
    ELSE [err |-> decodeError(params), reset |-> TRUE]

\* the four commands with ClearWarn and SetState(0) left out
resetCmds_Mutant ==
    <<SendFr("ClearError", 0, FALSE),
      SendFr("ClearError", 0, FALSE),
      SendFr("SetMode", servoMotionMode, TRUE),
      SendFr("SetMode", servoMotionMode, TRUE)>>

\* resetErrorState: the four commands, in the order it sends them
resetCmds ==
    <<SendFr("ClearError", 0, FALSE),
      SendFr("ClearWarn", 0, FALSE),
      SendFr("SetMode", servoMotionMode, TRUE),
      SendFr("SetState", 0, TRUE)>>

resetPcs == <<"c1", "c2", "m", "s">>

\* resetErrorState as a callee, called when n frames have been written
ResetFrs(n) == <<[Fr("resetErrorState", resetPcs[1], "", 0, FALSE) EXCEPT !.n = n], resetCmds[1]>>

\* resetErrorState: a command has returned; whatever it returned, the next
\* one is sent; after the last, multierr.Combine(err1, err2, err3, err4).
\* log records, per command, the number of frames written before it, the
\* error it returned and whether its frame reached the wire.
LocalReset(stk, r, n) ==
    LET f == Last(stk)
        k == CHOOSE i \in 1..4 : resetPcs[i] = f.pc
        log == Append(f.log, [at |-> f.n, err |-> r.err, wrote |-> r.wrote])
    IN  IF k < 4
        THEN PutF(stk, [f EXCEPT !.pc = resetPcs[k + 1], !.log = log, !.n = n], <<resetCmds[k + 1]>>)
        ELSE PopF(stk, [err |-> IF \E i \in 1..4 : log[i].err # "none" THEN "reset" ELSE "none",
                        params |-> log, wrote |-> FALSE])

\* send after writeBytes: the status check, getErrorParams, the collision
\* code, decodeError and resetErrorState.  A send that handled an error
\* report keeps it in rep, the number of frames written before the recovery
\* in n and the log of the recovery in log.
LocalSend(stk, r, n) ==
    LET f == Last(stk)
    IN  CASE f.pc = "wb" ->
                IF r.err # "none" THEN PopF(stk, r)
                ELSE IF f.chk /\ HasErrWarnBit(r.params[1])
                THEN PutF(stk, [f EXCEPT !.pc = "ge"], GetErrorFrs)
                ELSE PopF(stk, r)
          [] f.pc = "ge" ->
                IF r.err # "none" THEN PopF(stk, Err(r.err, TRUE))
                ELSE LET o == sendOutcome(r.params)
                         g == [f EXCEPT !.d = o.err, !.rep = SubSeq(r.params, 2, 3), !.n = n]
                     IN  IF o.reset
                         THEN PutF(stk, [g EXCEPT !.pc = "rs"], ResetFrs(n))
                         ELSE PutF(stk, [g EXCEPT !.pc = "ret", !.r = Err(o.err, TRUE)], <<>>)
          [] f.pc = "rs" ->
                PutF(stk, [f EXCEPT !.pc = "ret", !.log = r.params, !.r = Err(f.d, TRUE)], <<>>)

\* x.start(ctx) as a callee
StartFr == Fr("start", "entry", "", 0, FALSE)

\* a start that goes on with its next command when one has failed
LocalStart_GoesOn(stk, r, n) ==
    LET f == Last(stk)
    IN  IF f.pc = "t"
        THEN PutF(stk, [f EXCEPT !.pc = "m"], <<SendFr("SetMode", servoMotionMode, TRUE)>>)
        ELSE IF f.pc = "m"
        THEN PutF(stk, [f EXCEPT !.pc = "s"], <<SendFr("SetState", 0, TRUE)>>)
        ELSE PopF(stk, r)

\* start between its commands: toggleServos(true), setMotionMode(servo),
\* setMotionState(0), each returning the error of the one before
LocalStart(stk, r, n) ==
    LET f == Last(stk)
    IN  IF r.err # "none" THEN PopF(stk, r)
        ELSE IF f.pc = "t"
        THEN PutF(stk, [f EXCEPT !.pc = "m"], <<SendFr("SetMode", servoMotionMode, TRUE)>>)
        ELSE PutF(stk, [f EXCEPT !.pc = "s"], <<SendFr("SetState", 0, TRUE)>>)

\* JointPositions as a callee: newCmd(JointPos), send(ctx, c, true)
JointPosFrs == <<Fr("JointPositions", "jp", "", 0, FALSE), SendFr("JointPos", 0, TRUE)>>

LocalJointPos(stk, r, n) == PopF(stk, r)

\* motionStopped as a callee: newCmd(GetState), send(ctx, c, true)
StoppedFrs == <<Fr("motionStopped", "gs", "", 0, FALSE), SendFr("GetState", 0, TRUE)>>

\* motionStopped: sData.params[1] != 1 means the arm has stopped
LocalStopped(stk, r, n) ==
    IF r.err # "none" THEN PopF(stk, r)
    ELSE IF Len(r.params) < 2 THEN PopF(stk, Err("bad", TRUE))
    ELSE PopF(stk, Ok(<<IF r.params[2] # 1 THEN 1 ELSE 0>>, TRUE))

\* executeInputs(ctx, rawSteps) as a callee, rawSteps of length len
ExecFrs(len) == <<Fr("executeInputs", "st", "", len, FALSE), StartFr>>

\* an executeInputs that sends a step whose send failed once more
LocalExec_Retry(stk, r, n) ==
    LET f == Last(stk)
    IN  IF r.err # "none" /\ f.pc = "sent" /\ f.d = "none"
        THEN PutF(stk, [f EXCEPT !.d = "retried"], <<SendFr("MoveJoints", f.n, TRUE)>>)
        ELSE IF r.err # "none" THEN PopF(stk, r)
        ELSE IF f.arg = 0 THEN PopF(stk, NoRet)
        ELSE PutF(stk, [f EXCEPT !.pc = "sent", !.n = 1], <<SendFr("MoveJoints", 1, TRUE)>>)

\* executeInputs after x.start, and after a send that failed
LocalExec(stk, r, n) ==
    LET f == Last(stk)
    IN  IF r.err # "none" THEN PopF(stk, r)
        ELSE IF f.arg = 0 THEN PopF(stk, NoRet)
        ELSE PutF(stk, [f EXCEPT !.pc = "sent", !.n = 1], <<SendFr("MoveJoints", 1, TRUE)>>)

\* MoveThroughJointPositions as a callee: it begins with setMotionMode
MoveThroughFrs ==
    <<Fr("MoveThroughJointPositions", "mode", "", 0, FALSE), SendFr("SetMode", servoMotionMode, TRUE)>>

\* a MoveThroughJointPositions that goes on to the joint-limit check without
\* setMotionState(0) when the box reports that it is not ready
LocalThrough_NoSetState(stk, r, n) ==
    LET f == Last(stk)
    IN  IF r.err # "none" \/ f.pc = "ex" THEN PopF(stk, r)
        ELSE CASE f.pc = "mode" -> PutF(stk, [f EXCEPT !.pc = "ge"], GetErrorFrs)
               [] f.pc = "ge" ->
                     PutF(stk, [f EXCEPT !.pc = "chk",
                                         !.d = IF r.params[1] = StateNotReady
                                               THEN "not ready" ELSE "none"], JointPosFrs)
               [] f.pc = "ss" -> PutF(stk, [f EXCEPT !.pc = "chk"], JointPosFrs)

\* MoveThroughJointPositions: setMotionMode, getErrorParams, setMotionState(0)
\* when state == 0x10 (d keeps that the box reported it), then
\* arm.CheckDesiredJointPositions, which reads the current joint positions
\* of x; and the return of executeInputs
LocalThrough(stk, r, n) ==
    LET f == Last(stk)
    IN  IF r.err # "none" \/ f.pc = "ex" THEN PopF(stk, r)
        ELSE CASE f.pc = "mode" -> PutF(stk, [f EXCEPT !.pc = "ge"], GetErrorFrs)
               [] f.pc = "ge" ->
                     IF r.params[1] = StateNotReady
                     THEN PutF(stk, [f EXCEPT !.pc = "ss", !.d = "not ready"],
                               <<SendFr("SetState", 0, TRUE)>>)
                     ELSE PutF(stk, [f EXCEPT !.pc = "chk"], JointPosFrs)
               [] f.pc = "ss" -> PutF(stk, [f EXCEPT !.pc = "chk"], JointPosFrs)

OpFr(op, pc) == Fr("op", pc, op, 0, FALSE)

\* an exported operation between its calls
LocalOp(stk, r, n) ==
    LET f == Last(stk)
        return == PutF(stk, [f EXCEPT !.pc = "ret", !.r = r], <<>>)
    IN  IF r.err # "none" \/ f.pc = "done" THEN return
        ELSE CASE f.pc = "mp_st" -> PutF(stk, [f EXCEPT !.pc = "mp_cur"], JointPosFrs)
               [] f.pc = "mp_go" -> PutF(stk, [f EXCEPT !.pc = "mp_poll"], StoppedFrs)
               [] f.pc = "mp_poll" -> return
               [] f.pc = "stop_ss" -> PutF(stk, [f EXCEPT !.pc = "done"], <<StartFr>>)
               [] f.pc = "brake" -> PutF(stk, [f EXCEPT !.pc = "servo"], <<SendFr("ToggleServo", 0, TRUE)>>)
               [] f.pc = "servo" -> PutF(stk, [f EXCEPT !.pc = "state"], <<SendFr("SetState", 4, TRUE)>>)

\* the positions at which the next step of a goroutine is one of the above
IsLocal(f, r) ==
    CASE f.fn = "send" -> f.pc \in {"wb", "ge", "rs"}
      [] f.fn = "writeBytes" -> FALSE
      [] f.fn = "getErrorParams" -> TRUE
      [] f.fn = "resetErrorState" -> TRUE
      [] f.fn = "start" -> f.pc \in {"t", "m"} \/ (f.pc = "s" /\ r.err # "none")
      [] f.fn = "JointPositions" -> TRUE
      [] f.fn = "motionStopped" -> TRUE
      [] f.fn = "executeInputs" -> f.pc = "st" \/ (f.pc = "sent" /\ r.err # "none")
      [] f.fn = "MoveThroughJointPositions" ->
            f.pc \in {"mode", "ge", "ss", "ex"} \/ (f.pc \in {"chk", "cur"} /\ r.err # "none")
      [] f.fn = "op" ->
            \/ f.pc \in {"done", "mp_st", "mp_go", "stop_ss", "brake", "servo"}
            \/ f.pc \in {"mp_cur", "state"} /\ r.err # "none"
            \/ f.pc = "mp_poll" /\ (r.err # "none" \/ r.params[1] = 1)

Local(stk, r, n) ==
    LET fn == Last(stk).fn
    IN  CASE fn = "send" -> LocalSend(stk, r, n)
          [] fn = "getErrorParams" -> LocalGetError(stk, r, n)
          [] fn = "resetErrorState" -> LocalReset(stk, r, n)
          [] fn = "start" -> LocalStart(stk, r, n)
          [] fn = "JointPositions" -> LocalJointPos(stk, r, n)
          [] fn = "motionStopped" -> LocalStopped(stk, r, n)
          [] fn = "executeInputs" -> LocalExec(stk, r, n)
          [] fn = "MoveThroughJointPositions" -> LocalThrough(stk, r, n)
          [] fn = "op" -> LocalOp(stk, r, n)

\* the goroutine runs until its next step is one another goroutine can see
RECURSIVE Run(_, _, _)
Run(stk, r, n) ==
    IF stk = <<>> \/ ~IsLocal(Last(stk), r)
    THEN R(stk, r)
    ELSE LET x == Local(stk, r, n) IN Run(x.stk, x.ret, n)

\* goroutine p goes on from x, having written n frames
Go(p, x, n) ==
    LET y == Run(x.stk, x.ret, n)
    IN  /\ stack' = [stack EXCEPT ![p] = y.stk]
        /\ ret' = [ret EXCEPT ![p] = y.ret]

\* p's top record becomes f and calls callees / returns r
Step(p, f, callees) == Go(p, PutF(stack[p], f, callees), Len(sent[p]))
Pop(p, r) == Go(p, PopF(stack[p], r), Len(sent[p]))

(***************************************************************************)
(* The steps another goroutine can see: the actions.                       *)
(***************************************************************************)

\* a resetConnection that keeps the connection
resetConnection_Mutant == started' = FALSE /\ UNCHANGED <<conn, openSocks>>

\* resetConnection (xarm.go): close the socket, x.conn = nil,
\* x.started.Store(false); nothing when x.conn is nil already
resetConnection ==
    IF conn = 0
    THEN UNCHANGED <<conn, openSocks, started>>
    ELSE /\ openSocks' = openSocks \ {conn}
         /\ conn' = 0
         /\ started' = FALSE

\* A socket operation may fail: the network of a faulty run lets MaxFails
\* of them fail.
MayFail == faulty /\ fails < MaxFails

\* a Lock that does not wait
Lock_Mutant == TRUE

\* x.moveLock.Lock() returns when no goroutine holds the lock
Lock == moveLock = 0

\* writeBytes returns r: the deferred x.moveLock.Unlock()
WbReturn(p, r) ==
    /\ moveLock' = 0
    /\ wbErr' = [wbErr EXCEPT ![p] = r.err]
    /\ Pop(p, r)

\* writeBytes up to the first read: x.moveLock.Lock(); if x.conn == nil,
\* x.connect(ctx) (resetConnection, x.started.Store(false), DialContext, which
\* fails when the context is done), and when that fails resetConnection and
\* return; x.conn.SetDeadline; x.conn.Write(b), and when one of them fails
\* resetConnection and return.
WB_Lock(p) ==
    /\ At(p, "writeBytes", "lock")
    /\ Lock
    /\ LET dial == conn = 0
           c == IF dial THEN nDials + 1 ELSE conn
       IN  \/ /\ dial
              /\ IF cancelled[p] THEN UNCHANGED fails
                 ELSE MayFail /\ fails' = fails + 1
              /\ started' = FALSE
              /\ WbReturn(p, Err(IF cancelled[p] THEN "ctx" ELSE "io", FALSE))
              /\ UNCHANGED <<conn, nDials, openSocks, sent>>
           \/ /\ dial => ~cancelled[p]
              /\ nDials' = IF dial THEN c ELSE nDials
              /\ conn' = c
              /\ openSocks' = openSocks \cup {c}
              /\ started' = IF dial THEN FALSE ELSE started
              /\ moveLock' = p
              /\ sent' = [sent EXCEPT ![p] = Append(@, <<Top(p).reg, Top(p).arg>>)]
              /\ Step(p, [Top(p) EXCEPT !.pc = "read"], <<>>)
              /\ UNCHANGED <<fails, wbErr>>
           \/ /\ dial => ~cancelled[p]
              /\ MayFail
              /\ fails' = fails + 1
              /\ nDials' = IF dial THEN c ELSE nDials
              /\ conn' = 0
              /\ openSocks' = openSocks \ {c}
              /\ started' = FALSE
              /\ WbReturn(p, Err("io", FALSE))
              /\ UNCHANGED sent
    /\ UNCHANGED <<closed, mgr, opn, calls, faulty, devErrs, conf, codec>>

\* responseInLock: utils.ReadBytes(ctx, x.conn, 7) and
\* utils.ReadBytes(ctx, x.conn, int(length-1)); ReadBytes returns ctx.Err()
\* without reading when the context is done.  When a read fails,
\* resetConnection.  Then writeBytes returns.
WB_Read(p) ==
    /\ At(p, "writeBytes", "read")
    /\ moveLock = p
    /\ \/ /\ cancelled[p]
          /\ resetConnection
          /\ WbReturn(p, Err("ctx", TRUE))
          /\ UNCHANGED <<fails, devErrs>>
       \/ /\ ~cancelled[p]
          /\ \E params \in Responses(Top(p).reg, faulty /\ devErrs < MaxDevErrs) :
                /\ WbReturn(p, Ok(params, TRUE))
                /\ devErrs' = IF HasErrWarnBit(params[1]) THEN devErrs + 1 ELSE devErrs
          /\ UNCHANGED <<conn, openSocks, started, fails>>
       \/ /\ ~cancelled[p]
          /\ MayFail
          /\ fails' = fails + 1
          /\ resetConnection
          /\ WbReturn(p, Err("io", TRUE))
          /\ UNCHANGED devErrs
    /\ UNCHANGED <<closed, nDials, mgr, sent, opn, calls, faulty, conf, codec>>

Quiet == UNCHANGED <<xarm, net, mgr, sent, wbErr, opn, calls, env, conf, codec>>

\* send: if x.closed.Load() { return "closed" }; else writeBytes
Send_Entry(p) ==
    /\ At(p, "send", "entry")
    /\ IF closed
       THEN Pop(p, Err("closed", FALSE))
       ELSE Step(p, [Top(p) EXCEPT !.pc = "wb"],
                 <<Fr("writeBytes", "lock", Top(p).reg, Top(p).arg, FALSE)>>)
    /\ Quiet

\* send returns the error of an error report
Send_Return(p) ==
    /\ At(p, "send", "ret")
    /\ Pop(p, Top(p).r)
    /\ Quiet

\* start: if x.started.Load() { return nil }; else toggleServos(true)
Start_Entry(p) ==
    /\ At(p, "start", "entry")
    /\ IF started
       THEN Pop(p, NoRet)
       ELSE Step(p, [Top(p) EXCEPT !.pc = "t"], <<SendFr("ToggleServo", 1, TRUE)>>)
    /\ Quiet

\* start after setMotionState(0): x.started.Store(true)
Start_State(p) ==
    /\ At(p, "start", "s")
    /\ started' = TRUE
    /\ Pop(p, NoRet)
    /\ UNCHANGED <<conn, closed, moveLock, net, mgr, sent, wbErr, opn, calls, env, conf, codec>>

\* an executeInputs that sends the step it has just sent once more
Exec_Sent_Mutant(p) ==
    /\ At(p, "executeInputs", "sent")
    /\ IF cancelled[p]
       THEN Pop(p, Err("ctx", FALSE))
       ELSE IF Top(p).n < Top(p).arg
       THEN Step(p, [Top(p) EXCEPT !.n = @ + 1], <<SendFr("MoveJoints", Top(p).n, TRUE)>>)
       ELSE Pop(p, NoRet)
    /\ UNCHANGED <<xarm, net, mgr, sent, wbErr, opn, calls, env, conf, codec>>

\* executeInputs after a step was sent: utils.SelectContextOrWait returns
\* false when the context is done; else the next step is sent
Exec_Sent(p) ==
    /\ At(p, "executeInputs", "sent")
    /\ IF cancelled[p]
       THEN Pop(p, Err("ctx", FALSE))
       ELSE IF Top(p).n < Top(p).arg
       THEN Step(p, [Top(p) EXCEPT !.n = @ + 1], <<SendFr("MoveJoints", Top(p).n + 1, TRUE)>>)
       ELSE Pop(p, NoRet)
    /\ Quiet

\* MoveThroughJointPositions: arm.CheckDesiredJointPositions finds the goal
\* out of bounds or not; if not, x.JointPositions(ctx, nil)
Through_Checked(p) ==
    /\ At(p, "MoveThroughJointPositions", "chk")
    /\ \/ Pop(p, Err("bounds", FALSE))
       \/ Step(p, [Top(p) EXCEPT !.pc = "cur"], JointPosFrs)
    /\ Quiet

\* MoveThroughJointPositions: createRawJointSteps fails or yields len steps;
\* then executeInputs
Through_Current(p) ==
    /\ At(p, "MoveThroughJointPositions", "cur")
    /\ \/ Pop(p, Err("interpolate", FALSE))
       \/ \E len \in 0..NumSteps : Step(p, [Top(p) EXCEPT !.pc = "ex"], ExecFrs(len))
    /\ Quiet

(***************************************************************************)
(* The exported operations.  The record of an operation has fn = "op" and  *)
(* reg = the operation's name.                                             *)
(***************************************************************************)
Ops == {"JointPositions", "MoveThroughJointPositions", "MoveToJointPositions",
        "MoveToPosition", "Stop", "Close"}

\* The operations goroutine p may call: when the network and the box may
\* fail, the goroutines after the first only close the driver.
Menu(p) == IF faulty /\ p > 1 THEN {"Close"} ELSE Ops

\* A goroutine calls an operation, with a context that is not done.
\* Close begins with x.closed.Store(true).
Call(p) ==
    /\ stack[p] = <<>>
    /\ calls[p] < MaxCalls
    /\ \E op \in Menu(p) :
          /\ opn' = [opn EXCEPT ![p] = op]
          /\ closed' = IF op = "Close" THEN TRUE ELSE closed
          /\ stack' = [stack EXCEPT ![p] =
                CASE op = "JointPositions" -> <<OpFr(op, "done")>> \o JointPosFrs
                  [] op = "MoveThroughJointPositions" -> <<OpFr(op, "done")>> \o MoveThroughFrs
                  [] op = "Close" -> <<OpFr(op, "conn")>>
                  [] OTHER -> <<OpFr(op, "new")>>]
    /\ calls' = [calls EXCEPT ![p] = @ + 1]
    /\ sent' = [sent EXCEPT ![p] = <<>>]
    /\ wbErr' = [wbErr EXCEPT ![p] = "none"]
    /\ ret' = [ret EXCEPT ![p] = NoRet]
    /\ cancelled' = [cancelled EXCEPT ![p] = FALSE]
    /\ UNCHANGED <<conn, started, moveLock, net, opMu, curOp, env, conf, codec>>

\* the first statements of an operation after x.opMgr.New(ctx):
\* GoToInputs, x.start(ctx), or x.started.Store(false); setMotionState(3)
OpBody(p) ==
    LET f == Top(p)
    IN  CASE f.reg = "MoveToJointPositions" ->
                Step(p, [f EXCEPT !.pc = "done"], MoveThroughFrs) /\ UNCHANGED started
          [] f.reg = "MoveToPosition" ->
                Step(p, [f EXCEPT !.pc = "mp_st"], <<StartFr>>) /\ UNCHANGED started
          [] f.reg = "Stop" ->
                Step(p, [f EXCEPT !.pc = "stop_ss"], <<SendFr("SetState", 3, TRUE)>>)
                /\ started' = FALSE

\* a New that neither cancels the current operation nor waits for it
Op_New_NoCancel(p) ==
    /\ At(p, "op", "new")
    /\ opMu = 0
    /\ curOp' = p
    /\ OpBody(p)
    /\ UNCHANGED <<opMu, cancelled>>
    /\ UNCHANGED <<conn, closed, moveLock, net, sent, wbErr, opn, calls, env, conf, codec>>

\* x.opMgr.New(ctx): under the manager's mutex, cancel the context of the
\* current operation, if any, and wait until it is done; then become the
\* current operation.
Op_New(p) ==
    /\ At(p, "op", "new")
    /\ opMu = 0
    /\ IF curOp = 0
       THEN /\ curOp' = p
            /\ OpBody(p)
            /\ UNCHANGED <<opMu, cancelled>>
       ELSE /\ cancelled' = [cancelled EXCEPT ![curOp] = TRUE]
            /\ opMu' = p
            /\ Step(p, [Top(p) EXCEPT !.pc = "wait"], <<>>)
            /\ UNCHANGED <<curOp, started>>
    /\ UNCHANGED <<conn, closed, moveLock, net, sent, wbErr, opn, calls, env, conf, codec>>

Op_NewWait(p) ==
    /\ At(p, "op", "wait")
    /\ curOp = 0
    /\ curOp' = p
    /\ opMu' = 0
    /\ OpBody(p)
    /\ UNCHANGED <<conn, closed, moveLock, net, cancelled, sent, wbErr, opn, calls, env, conf, codec>>

\* an operation returns: the deferred done() of x.opMgr.New
Op_Return(p) ==
    /\ At(p, "op", "ret")
    /\ curOp' = IF curOp = p THEN 0 ELSE curOp
    /\ stack' = [stack EXCEPT ![p] = <<>>]
    /\ ret' = [ret EXCEPT ![p] = Top(p).r]
    /\ UNCHANGED <<xarm, net, opMu, cancelled, sent, wbErr, opn, calls, env, conf, codec>>

\* MoveToPosition: motion.MoveArm has read the current inputs of x; it
\* fails to plan, or calls x.GoToInputs
Position_Planned(p) ==
    /\ At(p, "op", "mp_cur")
    /\ \/ Step(p, [Top(p) EXCEPT !.pc = "ret", !.r = Err("plan", FALSE)], <<>>)
       \/ Step(p, [Top(p) EXCEPT !.pc = "mp_go"], MoveThroughFrs)
    /\ Quiet

\* MoveToPosition: opMgr.WaitForSuccess after a poll that found the arm
\* moving: utils.SelectContextOrWait(ctx, 50 ms), then the next poll
Position_Polled(p) ==
    /\ At(p, "op", "mp_poll")
    /\ IF cancelled[p]
       THEN Step(p, [Top(p) EXCEPT !.pc = "ret", !.r = Err("ctx", FALSE)], <<>>)
       ELSE /\ Top(p).n < MaxPolls
            /\ Step(p, [Top(p) EXCEPT !.n = @ + 1], StoppedFrs)
    /\ Quiet

\* Close after x.closed.Store(true): if x.conn == nil { return nil }, else
\* toggleBrake(false), toggleServos(false), setMotionState(4); after these,
\* x.conn.Close(); x.conn = nil.  arg keeps the connection Close found.
Close_Next(p) ==
    /\ stack[p] # <<>>
    /\ Top(p).fn = "op"
    /\ Top(p).pc \in {"conn", "state"}
    /\ LET f == Top(p)
       IN  IF f.pc = "conn"
           THEN /\ IF conn = 0
                   THEN Step(p, [f EXCEPT !.pc = "ret", !.r = NoRet], <<>>)
                   ELSE Step(p, [f EXCEPT !.pc = "brake", !.arg = conn], <<SendFr("ToggleBrake", 0, TRUE)>>)
                /\ UNCHANGED <<conn, openSocks, fails>>
           ELSE \/ /\ openSocks' = openSocks \ {conn}
                   /\ conn' = 0
                   /\ Step(p, [f EXCEPT !.pc = "ret", !.r = NoRet], <<>>)
                   /\ UNCHANGED fails
                \/ /\ MayFail
                   /\ fails' = fails + 1
                   /\ Step(p, [f EXCEPT !.pc = "ret", !.r = Err("io", FALSE)], <<>>)
                   /\ UNCHANGED <<conn, openSocks>>
    /\ UNCHANGED <<closed, started, moveLock, nDials, mgr, sent, wbErr, opn, calls, faulty, devErrs, conf, codec>>

(***************************************************************************)
(* The motion profile: x.speed and x.acceleration, guarded by x.confLock.  *)
(* The fields hold radians; the model holds them in thousandths.           *)
(***************************************************************************)
\* rutils.DegToRad: the units of one radian
UnitsPerRadian == 57296

\* utils.DegToRad of whole degrees, in thousandths of a radian
DegToRad(deg) == (deg * 1000000) \div UnitsPerRadian

\* Config.speed() and Config.acceleration(): zero means the default
cfgSpeed(s) == IF s = 0 THEN maxSpeed \div 3 ELSE s
cfgAcceleration(a) == IF a = 0 THEN maxAccel \div 3 ELSE a

\* Config.Validate on the two fields of the motion profile
Validate(s, a) ==
    /\ ~(a < 0)
    /\ ~(a > maxAccel)
    /\ ~(s # 0 /\ (s < minSpeed \/ s > maxSpeed))

\* NewXArm: the profile of a driver built from a configuration
NewXArm(s, a) ==
    /\ xSpeed = DegToRad(cfgSpeed(s))
    /\ xAcceleration = DegToRad(cfgAcceleration(a))
    /\ confLock = 0

\* NewXArm: tid: 0, and nothing written or received yet
NewCodec(t) ==
    /\ tid = t
    /\ wire = <<>>
    /\ rxBuf = <<>>

(***************************************************************************)
(* The specification.  Init is the driver as NewXArm returns it: connected *)
(* and started, connected but not started (the box refused a command of    *)
(* x.start), or not connected (a socket operation of x.start failed).      *)
(***************************************************************************)
Init ==
    /\ \E c \in {0, 1}, s \in BOOLEAN :
          /\ (c = 0) => ~s
          /\ conn = c
          /\ started = s
          /\ openSocks = IF c = 0 THEN {} ELSE {1}
    /\ nDials = 1
    /\ closed = FALSE
    /\ moveLock = 0
    /\ opMu = 0
    /\ curOp = 0
    /\ cancelled = [p \in Procs |-> FALSE]
    /\ stack = [p \in Procs |-> <<>>]
    /\ ret = [p \in Procs |-> NoRet]
    /\ sent = [p \in Procs |-> <<>>]
    /\ wbErr = [p \in Procs |-> "none"]
    /\ opn = [p \in Procs |-> ""]
    /\ calls = [p \in Procs |-> 0]
    /\ faulty \in BOOLEAN
    /\ fails = 0
    /\ devErrs = 0
    /\ NewXArm(0, 0)
    /\ NewCodec(0)

Next ==
    \E p \in Procs :
        \/ Call(p)
        \/ WB_Lock(p)
        \/ WB_Read(p)
        \/ Send_Entry(p)
        \/ Send_Return(p)
        \/ Start_Entry(p)
        \/ Start_State(p)
        \/ Exec_Sent(p)
        \/ Through_Checked(p)
        \/ Through_Current(p)
        \/ Op_New(p)
        \/ Op_NewWait(p)
        \/ Op_Return(p)
        \/ Position_Planned(p)
        \/ Position_Polled(p)
        \/ Close_Next(p)

Spec == Init /\ [][Next]_vars

(***************************************************************************)
(* The handling of one error report, for every pair of codes.  Goroutine 1 *)
(* runs JointPositions; the response to its JointPos frame had the error   *)
(* bit set, and it has written the GetError frame and waits for the        *)
(* response, which may carry any error code and any warning code.          *)
(***************************************************************************)
InitClassify ==
    /\ conn = 1
    /\ openSocks = {1}
    /\ nDials = 1
    /\ started = TRUE
    /\ closed = FALSE
    /\ moveLock = 1
    /\ opMu = 0
    /\ curOp = 0
    /\ cancelled = [p \in Procs |-> FALSE]
    /\ stack = [p \in Procs |->
                  IF p = 1
                  THEN <<OpFr("JointPositions", "done"),
                         JointPosFrs[1],
                         [JointPosFrs[2] EXCEPT !.pc = "ge"],
                         GetErrorFrs[1],
                         [GetErrorFrs[2] EXCEPT !.pc = "read"]>>
                  ELSE <<>>]
    /\ ret = [p \in Procs |-> NoRet]
    /\ sent = [p \in Procs |-> IF p = 1 THEN <<<<"JointPos", 0>>, <<"GetError", 0>>>> ELSE <<>>]
    /\ wbErr = [p \in Procs |-> "none"]
    /\ opn = [p \in Procs |-> IF p = 1 THEN "JointPositions" ELSE ""]
    /\ calls = [p \in Procs |-> IF p = 1 THEN 1 ELSE 0]
    /\ faulty = TRUE
    /\ fails = 0
    /\ devErrs = 1
    /\ NewXArm(0, 0)
    /\ NewCodec(0)

\* responseInLock reads the response to GetError: params[1] and params[2]
\* are any two bytes
ReportAny(p) ==
    /\ At(p, "writeBytes", "read")
    /\ Top(p).reg = "GetError"
    /\ moveLock = p
    /\ ~cancelled[p]
    /\ \E e \in 0..MaxByte, w \in 0..MaxByte : WbReturn(p, Ok(<<0, e, w>>, TRUE))
    /\ UNCHANGED <<conn, closed, started, net, mgr, sent, opn, calls, env, conf, codec>>

NextClassify == ReportAny(1)

SpecClassify == InitClassify /\ [][NextClassify]_vars

(***************************************************************************)
(* The trajectory generator, createRawJointSteps.  Joint positions are     *)
(* whole numbers of thousandths of a degree; a speed is the distance       *)
(* covered in one sample (speed / moveHZ) and an acceleration the change   *)
(* of that distance from one sample to the next (acceleration / moveHZ^2). *)
(* The code's 1e-6 rad tolerances are below one unit.  A configuration is  *)
(* the sequence of its joint positions.                                    *)
(***************************************************************************)
UnitsPerDegree == 10 * defaultMoveHz

\* a speed in degrees per second, as units per sample
PerSample(degPerSec) == (degPerSec * UnitsPerDegree) \div defaultMoveHz

\* an acceleration in degrees per second per second, as units per sample per sample
PerSample2(degPerSec2) == (degPerSec2 * UnitsPerDegree) \div (defaultMoveHz * defaultMoveHz)

\* defaultSpeed = maxSpeed / 3 and defaultAccel = maxAccel / 3
defaultSpeed == PerSample(maxSpeed \div 3)
defaultAccel == (maxAccel * UnitsPerDegree) \div (3 * defaultMoveHz * defaultMoveHz)

\* interwaypointAccel / x.moveHZ: the code adds the number to a speed held in
\* radians per second without converting it from degrees
interwaypointAccelStep ==
    ((interwaypointAccel \div defaultMoveHz) * UnitsPerRadian) \div defaultMoveHz

Abs(i) == IF i < 0 THEN 0 - i ELSE i

Reverse(s) == [i \in 1..Len(s) |-> s[Len(s) + 1 - i]]

\* floatMaxDiff: the largest absolute per-joint difference
floatMaxDiff(from, to) ==
    LET ds == {Abs(to[j] - from[j]) : j \in 1..Len(to)}
    IN  IF ds = {} THEN 0 ELSE CHOOSE d \in ds : \A e \in ds : e <= d

\* x.model.Interpolate(from, to, num / den): each joint moves the fraction
\* num / den of its way
Interpolate(from, to, num, den) ==
    [j \in 1..Len(from) |->
        IF to[j] >= from[j]
        THEN from[j] + ((to[j] - from[j]) * num) \div den
        ELSE from[j] - ((from[j] - to[j]) * num) \div den]

\* the distance along the path start, inputSteps[1], inputSteps[2], ...
RECURSIVE displacementTotal(_, _)
displacementTotal(startInputs, inputSteps) ==
    IF inputSteps = <<>> THEN 0
    ELSE floatMaxDiff(startInputs, Head(inputSteps))
            + displacementTotal(Head(inputSteps), Tail(inputSteps))

\* The variables of accelCurve at the head of its outer loop: all are the
\* waypoints, stopVel is <<>> for +Inf, i the index of the waypoint it
\* moves to (counted from 1), lastInputs the position reached, accelStep the
\* variable the closure captured, calls the calls of Interpolate made.
curveStart(startInputs, allInputSteps, stopVel, accelStep, made) ==
    [all |-> allInputSteps, stopVel |-> stopVel, i |-> 1,
     lastInputs |-> startInputs, currSpeed |-> accelStep,
     accelStep |-> accelStep, steps |-> <<>>, calls |-> made]

\* the distance from the position reached to the waypoint accelCurve moves to
currDiff(s) == floatMaxDiff(s.lastInputs, s.all[s.i])

\* one turn of accelCurve's inner loop, for the speed limit speed: the step
\* it appends and the speed and the captured accelStep after it
curveTurn(s, speed) ==
    LET toInputs == s.all[s.i]
        whole == currDiff(s) <= s.currSpeed      \* nSteps <= 1
        nextInputs == IF whole
                      THEN Interpolate(s.lastInputs, toInputs, 1, 1)
                      ELSE Interpolate(s.lastInputs, toInputs, s.currSpeed, currDiff(s))
        faster == s.currSpeed + (IF whole
                                 THEN (s.accelStep * currDiff(s)) \div s.currSpeed
                                 ELSE s.accelStep)
    IN  [s EXCEPT !.lastInputs = nextInputs,
                  !.steps = Append(@, nextInputs),
                  !.calls = @ + 1,
                  !.currSpeed = IF @ < speed
                                THEN (IF faster > speed THEN speed ELSE faster)
                                ELSE @,
                  !.accelStep = IF s.currSpeed < speed THEN @ ELSE interwaypointAccelStep]

\* int(0.95 * math.Sqrt(displacement / acceleration) * x.moveHZ)
reducedAccelSteps(displacement, acceleration, most) ==
    CHOOSE n \in 0..most :
        /\ n * n * acceleration <= (361 * displacement) \div 400
        /\ n = most \/ (n + 1) * (n + 1) * acceleration > (361 * displacement) \div 400

\* nominalAccelSteps after the adjustment for a short move
nominalAccelSteps(displacement, speed, acceleration) ==
    LET n == speed \div acceleration
    IN  IF n * speed * 100 > 95 * displacement
        THEN reducedAccelSteps(displacement, acceleration, n + 1)
        ELSE n

\* the activation record of createRawJointSteps.  arg is its input:
\* startInputs, inputSteps, the speed and the acceleration it read, and
\* failAt, the call of Interpolate that fails (0: none).  reg is the pass:
\* "decel" or "accel"; n is maxVel, r the variables of accelCurve, log the
\* decelSteps; d is the outcome and rep the steps returned.
CreateFr(input) == Fr("createRawJointSteps", "entry", "decel", input, FALSE)

inputStepsReversed(input) == Append(Reverse(input.inputSteps), input.startInputs)

\* the top record of p becomes f
SetTop(p, f) == stack' = [stack EXCEPT ![p] = Append(Rst(@), f)]

\* createRawJointSteps up to the first call of accelCurve
Create_Entry(p) ==
    /\ At(p, "createRawJointSteps", "entry")
    /\ LET in == Top(p).arg
           maxVel == nominalAccelSteps(displacementTotal(in.startInputs, in.inputSteps),
                                       in.speed, in.acceleration) * in.acceleration
       IN  SetTop(p, [Top(p) EXCEPT
                  !.pc = "curve",
                  !.n = maxVel,
                  !.r = curveStart(inputStepsReversed(in)[1], inputStepsReversed(in),
                                   <<maxVel>>, in.acceleration, 0)])

\* a curveReturn that counts accelStop from the wrong end of the range
curveReturn_Mutant(f, s, idx) ==
    LET in == f.arg
        accelStop == Len(in.inputSteps) + 1 - idx
        cut == accelStop >= 0 /\ accelStop < Len(in.inputSteps)
    IN  IF f.reg = "decel"
        THEN IF cut /\ s.steps = <<>>
             THEN [f EXCEPT !.pc = "ret", !.d = "panic", !.r = s]
             ELSE [f EXCEPT
                     !.reg = "accel",
                     !.log = s.steps,
                     !.r = curveStart(in.startInputs,
                                      IF cut
                                      THEN Append(SubSeq(in.inputSteps, 1, accelStop),
                                                  s.steps[Len(s.steps)])
                                      ELSE in.inputSteps,
                                      <<>>, s.accelStep, s.calls)]
        ELSE [f EXCEPT
                !.pc = "ret",
                !.r = s,
                !.rep = s.steps \o [i \in 1..(Len(f.log) - 1) |-> f.log[Len(f.log) - i]]]

\* accelCurve returns (idx, s.steps, nil) to createRawJointSteps: after the
\* first pass, accelStop and accelInputSteps and the call of the second
\* pass, where decelSteps[len(decelSteps)-1] with decelSteps empty ends the
\* program; after the second pass, the return of the steps
curveReturn(f, s, idx) ==
    LET in == f.arg
        accelStop == Len(in.inputSteps) - idx
        cut == accelStop >= 0 /\ accelStop < Len(in.inputSteps)
    IN  IF f.reg = "decel"
        THEN IF cut /\ s.steps = <<>>
             THEN [f EXCEPT !.pc = "ret", !.d = "panic", !.r = s]
             ELSE [f EXCEPT
                     !.reg = "accel",
                     !.log = s.steps,
                     !.r = curveStart(in.startInputs,
                                      IF cut
                                      THEN Append(SubSeq(in.inputSteps, 1, accelStop),
                                                  s.steps[Len(s.steps)])
                                      ELSE in.inputSteps,
                                      <<>>, s.accelStep, s.calls)]
        ELSE [f EXCEPT
                !.pc = "ret",
                !.r = s,
                !.rep = s.steps \o [i \in 1..(Len(f.log) - 1) |-> f.log[Len(f.log) - i]]]

\* accelCurve: the head of the outer loop and at most one turn of the inner
\* loop
Curve_Turn(p) ==
    /\ At(p, "createRawJointSteps", "curve")
    /\ LET f == Top(p)
           s == f.r
           t == curveTurn(s, f.arg.speed)
       IN  IF s.i > Len(s.all)
           THEN SetTop(p, curveReturn(f, s, Len(s.all)))
           ELSE IF currDiff(s) <= 0 \/ s.currSpeed <= 0
           THEN SetTop(p, [f EXCEPT !.r = [s EXCEPT !.i = @ + 1, !.lastInputs = s.all[s.i]]])
           ELSE IF t.calls = f.arg.failAt
           THEN SetTop(p, [f EXCEPT !.pc = "ret", !.d = "interpolate",
                                    !.r = [s EXCEPT !.calls = @ + 1]])
           ELSE IF s.stopVel # <<>> /\ t.currSpeed >= s.stopVel[1]
           THEN SetTop(p, curveReturn(f, t, s.i - 1))
           ELSE SetTop(p, [f EXCEPT !.r = t])

\* a MoveThroughJointPositions that streams the steps generated before the failure
Through_Steps_Mutant(p) ==
    /\ At(p, "createRawJointSteps", "ret")
    /\ Top(p).d # "panic"
    /\ LET g == Top(p)
           f == Last(Rst(stack[p]))
       IN  stack' = [stack EXCEPT ![p] =
               <<[f EXCEPT !.pc = "ex", !.r = Ok(g.r.steps, FALSE), !.arg = g.arg,
                           !.reg = g.reg, !.n = g.r.calls]>>]

\* MoveThroughJointPositions: createRawJointSteps has returned; with an
\* error it returns the error, otherwise it calls executeInputs.  The record
\* keeps the input of the generator in arg, the pass in which it ended in
\* reg and the calls of Interpolate it made in n.
Through_Steps(p) ==
    /\ At(p, "createRawJointSteps", "ret")
    /\ Top(p).d # "panic"
    /\ LET g == Top(p)
           f == [Last(Rst(stack[p])) EXCEPT !.arg = g.arg, !.reg = g.reg, !.n = g.r.calls]
       IN  stack' = [stack EXCEPT ![p] =
               <<IF g.d = "interpolate"
                 THEN [f EXCEPT !.pc = "ret", !.r = Err("interpolate", FALSE)]
                 ELSE [f EXCEPT !.pc = "ex", !.r = Ok(g.rep, FALSE)]>>]

\* executeInputs on a started driver whose box answers every frame: one
\* MoveJoints frame for each step
Through_Execute(p) ==
    /\ At(p, "MoveThroughJointPositions", "ex")
    /\ stack' = [stack EXCEPT ![p] = <<[Top(p) EXCEPT !.pc = "ret"]>>]
    /\ sent' = [sent EXCEPT ![p] =
                   @ \o [i \in 1..Len(Top(p).r.params) |-> <<"MoveJoints", i>>]]

(***************************************************************************)
(* The trajectories: a goroutine is in MoveThroughJointPositions and calls *)
(* createRawJointSteps with a start configuration, waypoints, a speed and  *)
(* an acceleration within the limits of Validate and clampMoveOptions, and *)
(* a kinematic model whose interpolation may fail.                         *)
(***************************************************************************)
MaxWaypoints == 2
MaxFailAt == 2
MaxSamples == 250

\* two joints; the second of the test's start and goal moves like the first
Configs ==
    {<<0, 0>>, <<20, 20>>, <<573, 0 - 200>>, <<5730, 0>>, <<UnitsPerRadian, UnitsPerRadian>>}

\* (speed, acceleration): the defaults; the least speed; the greatest speed
\* and acceleration; the default speed with a low acceleration
Profiles ==
    {<<defaultSpeed, defaultAccel>>,
     <<PerSample(minSpeed), defaultAccel>>,
     <<PerSample(maxSpeed), PerSample2(maxAccel)>>,
     <<defaultSpeed, PerSample2(100)>>}

Waypoints == UNION {[1..n -> Configs] : n \in 0..MaxWaypoints}

Inputs ==
    {in \in [startInputs : Configs, inputSteps : Waypoints,
             speed : {pr[1] : pr \in Profiles},
             acceleration : {pr[2] : pr \in Profiles},
             failAt : 0..MaxFailAt] :
        /\ <<in.speed, in.acceleration>> \in Profiles
        /\ displacementTotal(in.startInputs, in.inputSteps) <= MaxSamples * in.speed}

InitSteps ==
    /\ conn = 1
    /\ openSocks = {1}
    /\ nDials = 1
    /\ started = TRUE
    /\ closed = FALSE
    /\ moveLock = 0
    /\ opMu = 0
    /\ curOp = 1
    /\ cancelled = [p \in Procs |-> FALSE]
    /\ \E in \in Inputs :
          stack = [p \in Procs |->
                     IF p = 1
                     THEN <<Fr("MoveThroughJointPositions", "cur", "", 0, FALSE),
                            CreateFr(in)>>
                     ELSE <<>>]
    /\ ret = [p \in Procs |-> NoRet]
    /\ sent = [p \in Procs |-> <<>>]
    /\ wbErr = [p \in Procs |-> "none"]
    /\ opn = [p \in Procs |-> IF p = 1 THEN "MoveThroughJointPositions" ELSE ""]
    /\ calls = [p \in Procs |-> IF p = 1 THEN 1 ELSE 0]
    /\ faulty = FALSE
    /\ fails = 0
    /\ devErrs = 0
    /\ NewXArm(0, 0)
    /\ NewCodec(0)

NextSteps ==
    \/ Create_Entry(1) /\ Quiet /\ UNCHANGED ret
    \/ Curve_Turn(1) /\ Quiet /\ UNCHANGED ret
    \/ Through_Steps(1) /\ Quiet /\ UNCHANGED ret
    \/ Through_Execute(1) /\ UNCHANGED <<xarm, net, mgr, ret, wbErr, opn, calls, env, conf, codec>>

SpecSteps == InitSteps /\ [][NextSteps]_vars

(***************************************************************************)
(* The gripper: goToPosition.  The record of a call has the goal in arg    *)
(* and its locals in r: old as the code keeps it, the milliseconds elapsed *)
(* since start, and for the observer the number of polls that returned a   *)
(* position, the position of the last one and of the one before it,        *)
(* whether a poll failed, and the result.                                  *)
(***************************************************************************)
\* Grab calls goToPosition(ctx, 2) and Open goToPosition(ctx, 840)
Goals == {2, 840}

\* the positions the gripper may report
Positions == {0 - 2, 9, 12, 833, 834}

\* the milliseconds a turn of the loop may take: the sleep and the round
\* trip of get_gripper
Durations == {pollSleep + 390, pollSleep + 690, pollSleep + 2090}

GoToFr(goal) ==
    [Fr("goToPosition", "lock", "", goal, FALSE) EXCEPT
        !.r = [old |-> 0 - 1, elapsed |-> 0, polls |-> 0, last |-> 0, prev |-> 0,
               failed |-> FALSE, res |-> NoRet]]

\* the goroutines that hold g.goToPositionLock
goToPositionLock ==
    {q \in Procs : stack[q] # <<>> /\ Top(q).fn = "goToPosition" /\ Top(q).pc # "lock"}

\* goToPosition returns res
goToReturn(f, res) == [f EXCEPT !.pc = "ret", !.r.res = res]

\* a turn of the loop that does not return at a failed poll
goToTurn_Mutant(f, dur, failed, pos) ==
    LET elapsed == f.r.elapsed + dur
        g == [f EXCEPT !.r.elapsed = elapsed, !.r.polls = @ + 1,
                       !.r.last = pos, !.r.prev = f.r.last]
    IN  IF failed THEN [f EXCEPT !.r.elapsed = elapsed, !.r.failed = TRUE]
        ELSE IF Abs(pos - f.arg) <= goalTolerance THEN goToReturn(g, Ok(<<pos>>, FALSE))
        ELSE IF f.r.old >= 0 /\ Abs(pos - f.r.old) <= stallTolerance
        THEN goToReturn(g, Ok(<<pos>>, FALSE))
        ELSE IF elapsed > goToTimeout
        THEN goToReturn([g EXCEPT !.r.old = pos],
                        [err |-> "timeout", params |-> <<f.arg, elapsed>>, wrote |-> FALSE])
        ELSE [g EXCEPT !.r.old = pos]

\* a turn of the loop that compares every poll with old
goToTurn_AlwaysStall(f, dur, failed, pos) ==
    LET elapsed == f.r.elapsed + dur
        g == [f EXCEPT !.r.elapsed = elapsed, !.r.polls = @ + 1,
                       !.r.last = pos, !.r.prev = f.r.last]
    IN  IF failed THEN goToReturn([f EXCEPT !.r.elapsed = elapsed, !.r.failed = TRUE], Err("poll", FALSE))
        ELSE IF Abs(pos - f.arg) <= goalTolerance THEN goToReturn(g, Ok(<<pos>>, FALSE))
        ELSE IF Abs(pos - f.r.old) <= stallTolerance
        THEN goToReturn(g, Ok(<<pos>>, FALSE))
        ELSE IF elapsed > goToTimeout
        THEN goToReturn([g EXCEPT !.r.old = pos],
                        [err |-> "timeout", params |-> <<f.arg, elapsed>>, wrote |-> FALSE])
        ELSE [g EXCEPT !.r.old = pos]

\* one turn of the loop of goToPosition: the sleep and getPosition take dur
\* milliseconds together, getPosition fails or returns pos
goToTurn(f, dur, failed, pos) ==
    LET elapsed == f.r.elapsed + dur
        g == [f EXCEPT !.r.elapsed = elapsed, !.r.polls = @ + 1,
                       !.r.last = pos, !.r.prev = f.r.last]
    IN  IF failed THEN goToReturn([f EXCEPT !.r.elapsed = elapsed, !.r.failed = TRUE], Err("poll", FALSE))
        ELSE IF Abs(pos - f.arg) <= goalTolerance THEN goToReturn(g, Ok(<<pos>>, FALSE))
        ELSE IF f.r.old >= 0 /\ Abs(pos - f.r.old) <= stallTolerance
        THEN goToReturn(g, Ok(<<pos>>, FALSE))
        ELSE IF elapsed > goToTimeout
        THEN goToReturn([g EXCEPT !.r.old = pos],
                        [err |-> "timeout", params |-> <<f.arg, elapsed>>, wrote |-> FALSE])
        ELSE [g EXCEPT !.r.old = pos]

GoToQuiet == UNCHANGED <<xarm, net, mgr, ret, sent, wbErr, opn, calls, env, conf, codec>>

\* Grab or Open calls goToPosition
GoTo_Call(p) ==
    /\ stack[p] = <<>>
    /\ calls[p] < MaxCalls
    /\ \E goal \in Goals : stack' = [stack EXCEPT ![p] = <<GoToFr(goal)>>]
    /\ calls' = [calls EXCEPT ![p] = @ + 1]
    /\ UNCHANGED <<xarm, net, mgr, ret, sent, wbErr, opn, env, conf, codec>>

\* g.goToPositionLock.Lock()
GoTo_Lock(p) ==
    /\ At(p, "goToPosition", "lock")
    /\ goToPositionLock = {}
    /\ SetTop(p, [Top(p) EXCEPT !.pc = "move"])
    /\ GoToQuiet

\* g.arm.DoCommand(setup_gripper, move_gripper) fails or not; start := time.Now()
GoTo_Move(p) ==
    /\ At(p, "goToPosition", "move")
    /\ \/ SetTop(p, goToReturn(Top(p), Err("move", FALSE)))
       \/ SetTop(p, [Top(p) EXCEPT !.pc = "poll"])
    /\ GoToQuiet

\* a turn of the loop
GoTo_Poll(p) ==
    /\ At(p, "goToPosition", "poll")
    /\ \E dur \in Durations :
          \/ SetTop(p, goToTurn(Top(p), dur, TRUE, 0))
          \/ \E pos \in Positions : SetTop(p, goToTurn(Top(p), dur, FALSE, pos))
    /\ GoToQuiet

\* the deferred Unlock and the return to the caller
GoTo_Return(p) ==
    /\ At(p, "goToPosition", "ret")
    /\ stack' = [stack EXCEPT ![p] = <<>>]
    /\ ret' = [ret EXCEPT ![p] = Top(p).r.res]
    /\ UNCHANGED <<xarm, net, mgr, sent, wbErr, opn, calls, env, conf, codec>>

InitGoTo ==
    /\ conn = 1
    /\ openSocks = {1}
    /\ nDials = 1
    /\ started = TRUE
    /\ closed = FALSE
    /\ moveLock = 0
    /\ opMu = 0
    /\ curOp = 0
    /\ cancelled = [p \in Procs |-> FALSE]
    /\ stack = [p \in Procs |-> <<>>]
    /\ ret = [p \in Procs |-> NoRet]
    /\ sent = [p \in Procs |-> <<>>]
    /\ wbErr = [p \in Procs |-> "none"]
    /\ opn = [p \in Procs |-> ""]
    /\ calls = [p \in Procs |-> 0]
    /\ faulty = FALSE
    /\ fails = 0
    /\ devErrs = 0
    /\ NewXArm(0, 0)
    /\ NewCodec(0)

\* the steps of a goroutine inside goToPosition once it has the lock
GoTo_Run(p) == GoTo_Move(p) \/ GoTo_Poll(p) \/ GoTo_Return(p)

NextGoTo ==
    \E p \in Procs :
        \/ GoTo_Call(p)
        \/ GoTo_Lock(p)
        \/ GoTo_Move(p)
        \/ GoTo_Poll(p)
        \/ GoTo_Return(p)

SpecGoTo == InitGoTo /\ [][NextGoTo]_vars

\* a goroutine that can run does run; a goroutine that waits for the mutex
\* gets it (sync.Mutex hands the lock to a waiter that has waited long)
SpecGoToFair ==
    /\ SpecGoTo
    /\ \A p \in Procs : WF_vars(GoTo_Run(p)) /\ SF_vars(GoTo_Lock(p))

(***************************************************************************)
(* DoCommand of the arm.  A request is the set of its keys; the record of  *)
(* a call has the request in arg, the index in doKeys of the key whose     *)
(* test it is at in n, validCommand in chk, and for the observer the keys  *)
(* whose action it has performed in log.                                   *)
(***************************************************************************)
MaxKeys == 3

\* the keys DoCommand tests, in the order of its tests
doKeys ==
    <<"move_gripper", "get_gripper", "load", "set_speed", "set_acceleration",
      "grab_vacuum", "open_vacuum", "clear_error", "get_state", "get_error",
      "get_vacuum_state", "gripper_lite_action">>

\* a key DoCommand does not test; goToPosition of the gripper sends it
otherKeys == {"setup_gripper"}

\* the keys whose branch returns the response at once
earlyKeys == {"get_state", "get_error"}

\* the keys whose branch checks the value, and those whose branch talks to the box
checkedKeys ==
    {"move_gripper", "set_speed", "set_acceleration", "grab_vacuum", "open_vacuum",
     "gripper_lite_action"}
boxKeys == {doKeys[i] : i \in 1..Len(doKeys)} \ {"set_speed", "set_acceleration"}

\* how the branch of key k may end
Outcomes(k) ==
    {"ok"} \cup (IF k \in checkedKeys THEN {"invalid"} ELSE {})
           \cup (IF k \in boxKeys THEN {"io"} ELSE {})

Requests ==
    {c \in SUBSET ({doKeys[i] : i \in 1..Len(doKeys)} \cup otherKeys) :
        Cardinality(c) <= MaxKeys}

\* the index of the first key from index n on that is in cmd, or Len(doKeys) + 1
nextKey(cmd, n) ==
    LET is == {i \in n..Len(doKeys) : doKeys[i] \in cmd}
    IN  IF is = {} THEN Len(doKeys) + 1 ELSE CHOOSE i \in is : \A j \in is : i <= j

DoFr(cmd) == [Fr("DoCommand", "keys", "", cmd, FALSE) EXCEPT !.n = nextKey(cmd, 1)]

\* an end of DoCommand that rejects a request with a key it does not test
doEnd_RejectOther(f) ==
    IF ~f.chk \/ f.arg \cap otherKeys # {}
    THEN [f EXCEPT !.pc = "ret", !.r = Err("command not found", FALSE)]
    ELSE [f EXCEPT !.pc = "ret", !.r = Ok(<<>>, FALSE)]

\* the end of DoCommand: if !validCommand, "command not found"
doEnd(f) ==
    IF ~f.chk
    THEN [f EXCEPT !.pc = "ret", !.r = Err("command not found", FALSE)]
    ELSE [f EXCEPT !.pc = "ret", !.r = Ok(<<>>, FALSE)]

\* setupGripper: enableGripper, setGripperMode(false)
setupGripperFrames == <<<<"GripperControl", "enable">>, <<"GripperControl", "mode">>>>

\* the frames the branch of key k writes when it ends as o.  move_gripper
\* calls setupGripper, then checks the position, then setGripperPosition;
\* load calls setupGripper, then getLoad; set_speed and set_acceleration
\* write nothing; the other branches check the value, if they check one,
\* and then send (one frame here, named by the key).  A branch that ends
\* as "io" has written the frame whose send failed.
keyFrames(k, o) ==
    CASE k = "move_gripper" ->
            IF o = "ok" THEN Append(setupGripperFrames, <<"GripperControl", "position">>)
            ELSE IF o = "invalid" THEN setupGripperFrames
            ELSE <<<<"GripperControl", "enable">>>>
      [] k = "load" ->
            IF o = "ok" THEN Append(setupGripperFrames, <<"CurrentTorque", 0>>)
            ELSE <<<<"GripperControl", "enable">>>>
      [] k \in {"set_speed", "set_acceleration"} -> <<>>
      [] OTHER -> IF o = "invalid" THEN <<>> ELSE <<<<k, 0>>>>

\* DoCommand at the branch of the next key of the request, or at its end.
\* rep keeps the frames the last branch wrote and d how it ended.
Do_Key(p) ==
    /\ At(p, "DoCommand", "keys")
    /\ LET f == Top(p)
       IN  IF f.n > Len(doKeys)
           THEN SetTop(p, doEnd(f)) /\ UNCHANGED sent
           ELSE \E o \in Outcomes(doKeys[f.n]) :
                   /\ sent' = [sent EXCEPT ![p] = @ \o keyFrames(doKeys[f.n], o)]
                   /\ LET g == [f EXCEPT !.rep = keyFrames(doKeys[f.n], o), !.d = o]
                      IN  IF o # "ok"
                          THEN SetTop(p, [g EXCEPT !.pc = "ret", !.r = Err(o, FALSE)])
                          ELSE IF doKeys[f.n] \in earlyKeys
                          THEN SetTop(p, [g EXCEPT !.pc = "ret", !.log = Append(@, doKeys[f.n]),
                                                   !.r = Ok(<<doKeys[f.n]>>, FALSE)])
                          ELSE SetTop(p, [g EXCEPT !.log = Append(@, doKeys[f.n]),
                                                   !.chk = TRUE,
                                                   !.n = nextKey(f.arg, f.n + 1)])
    /\ UNCHANGED <<xarm, net, mgr, ret, wbErr, opn, calls, env, conf, codec>>

\* DoCommand returns to its caller
Do_Return(p) ==
    /\ At(p, "DoCommand", "ret")
    /\ stack' = [stack EXCEPT ![p] = <<>>]
    /\ ret' = [ret EXCEPT ![p] = Top(p).r]
    /\ UNCHANGED <<xarm, net, mgr, sent, wbErr, opn, calls, env, conf, codec>>

InitDo ==
    /\ conn = 1
    /\ openSocks = {1}
    /\ nDials = 1
    /\ started = TRUE
    /\ closed = FALSE
    /\ moveLock = 0
    /\ opMu = 0
    /\ curOp = 0
    /\ cancelled = [p \in Procs |-> FALSE]
    /\ \E cmd \in Requests :
          stack = [p \in Procs |-> IF p = 1 THEN <<DoFr(cmd)>> ELSE <<>>]
    /\ ret = [p \in Procs |-> NoRet]
    /\ sent = [p \in Procs |-> <<>>]
    /\ wbErr = [p \in Procs |-> "none"]
    /\ opn = [p \in Procs |-> IF p = 1 THEN "DoCommand" ELSE ""]
    /\ calls = [p \in Procs |-> IF p = 1 THEN 1 ELSE 0]
    /\ faulty = FALSE
    /\ fails = 0
    /\ devErrs = 0
    /\ NewXArm(0, 0)
    /\ NewCodec(0)

NextDo == Do_Key(1) \/ Do_Return(1)

SpecDo == InitDo /\ [][NextDo]_vars

(***************************************************************************)
(* The motion profile under concurrent callers: DoCommand's set_speed and  *)
(* set_acceleration store one field each under x.confLock, and a move      *)
(* clamps its options and reads both fields under x.confLock before it     *)
(* generates its trajectory.  The frames a move writes before it generates *)
(* do not touch the profile and are left out here.                        *)
(***************************************************************************)
MaxProfileOps == 1

\* set_speed / set_acceleration values, in degrees; <<>>: no such key
SpeedCmds == {<<>>, <<0>>, <<2>>, <<90>>, <<500>>}
AccelCmds == {<<>>, <<0 - 5>>, <<100>>, <<2000>>}

\* arm.MoveOptions, in thousandths of a radian; given = FALSE: opts == nil
NoOpts == [given |-> FALSE, MaxVelRads |-> 0, MaxAccRads |-> 0]
MoveOpts ==
    {NoOpts} \cup
    {[given |-> TRUE, MaxVelRads |-> v, MaxAccRads |-> a] :
        v \in {0, 10, DegToRad(90), 500000}, a \in {0 - 5, 0, 2500, 500000}}

\* configurations a driver may be built from, in degrees
CfgSpeeds == {0, 2, 30, 200}
CfgAccels == {0 - 1, 0, 500, 1200}

clampMoveOptions(val, minVal, maxVal) ==
    IF val = 0 THEN val
    ELSE IF val < minVal THEN minVal
    ELSE IF val > maxVal THEN maxVal
    ELSE val

\* MoveThroughJointPositions: opts after the two calls of clampMoveOptions
clampedOpts(opts) ==
    IF ~opts.given THEN opts
    ELSE [opts EXCEPT
            !.MaxVelRads = clampMoveOptions(@, DegToRad(minSpeed), DegToRad(maxSpeed)),
            !.MaxAccRads = clampMoveOptions(@, 0, DegToRad(maxAccel))]

\* a move: its options as given, and the locals of createRawJointSteps
MoveFr(opts) ==
    [Fr("MoveThroughJointPositions", "clamp", "", opts, FALSE) EXCEPT
        !.r = [opts |-> opts, speed |-> 0, acceleration |-> 0, moveHZ |-> defaultMoveHz]]

\* DoCommand with the keys set_speed and set_acceleration
SetFr(s, a) ==
    [Fr("DoCommand", "set_speed", "", [set_speed |-> s, set_acceleration |-> a], FALSE)
        EXCEPT !.r = NoRet]

\* x.confLock.Lock() without waiting for the holder
confLockLock_NoWait(p) == confLock' = p

\* x.confLock.Lock()
confLockLock(p) == confLock = 0 /\ confLock' = p

ProfileQuiet == UNCHANGED <<xarm, net, mgr, sent, wbErr, opn, env, codec>>

\* a goroutine calls DoCommand or MoveThroughJointPositions
Profile_Call(p) ==
    /\ stack[p] = <<>>
    /\ calls[p] < MaxProfileOps
    /\ \/ \E s \in SpeedCmds, a \in AccelCmds :
             /\ s # <<>> \/ a # <<>>
             /\ stack' = [stack EXCEPT ![p] = <<SetFr(s, a)>>]
       \/ \E o \in MoveOpts : stack' = [stack EXCEPT ![p] = <<MoveFr(o)>>]
    /\ calls' = [calls EXCEPT ![p] = @ + 1]
    /\ ret' = [ret EXCEPT ![p] = NoRet]
    /\ ProfileQuiet /\ UNCHANGED conf

\* DoCommand: a key is tested and its value checked
Profile_Check(p) ==
    /\ stack[p] # <<>>
    /\ Top(p).fn = "DoCommand"
    /\ Top(p).pc \in {"set_speed", "set_acceleration"}
    /\ LET f == Top(p)
           v == f.arg[f.pc]
           after == IF f.pc = "set_speed" THEN "set_acceleration" ELSE "done"
       IN  IF v = <<>> THEN SetTop(p, [f EXCEPT !.pc = after])
           ELSE IF v[1] <= 0
                THEN SetTop(p, [f EXCEPT !.pc = "done", !.r = Err("invalid", FALSE)])
                ELSE SetTop(p, [f EXCEPT !.d = f.pc, !.pc = "lock"])
    /\ UNCHANGED <<ret, calls>>
    /\ ProfileQuiet /\ UNCHANGED conf

\* x.confLock.Lock() in DoCommand and in createRawJointSteps
Profile_Lock(p) ==
    /\ stack[p] # <<>>
    /\ Top(p).pc = "lock"
    /\ confLockLock(p)
    /\ SetTop(p, [Top(p) EXCEPT !.pc = IF Top(p).fn = "DoCommand" THEN "store" ELSE "speed"])
    /\ UNCHANGED <<ret, calls, xSpeed, xAcceleration>>
    /\ ProfileQuiet

\* DoCommand: the field is stored and the lock released; log keeps, for the
\* observer, the value the store replaced and the value stored
Profile_Store(p) ==
    /\ At(p, "DoCommand", "store")
    /\ LET f == Top(p)
           old == IF f.d = "set_speed" THEN xSpeed ELSE xAcceleration
           new == DegToRad(f.arg[f.d][1])
       IN  /\ IF f.d = "set_speed"
              THEN xSpeed' = new /\ UNCHANGED xAcceleration
              ELSE xAcceleration' = new /\ UNCHANGED xSpeed
           /\ SetTop(p, [f EXCEPT !.pc = IF f.d = "set_speed" THEN "set_acceleration" ELSE "done",
                                  !.log = Append(@, [key |-> f.d, old |-> old, new |-> new])])
    /\ confLock' = 0
    /\ UNCHANGED <<ret, calls>>
    /\ ProfileQuiet

\* MoveThroughJointPositions: the options are clamped
Profile_Clamp(p) ==
    /\ At(p, "MoveThroughJointPositions", "clamp")
    /\ SetTop(p, [Top(p) EXCEPT !.r.opts = clampedOpts(@), !.pc = "lock"])
    /\ UNCHANGED <<ret, calls>>
    /\ ProfileQuiet /\ UNCHANGED conf

\* createRawJointSteps: speed := x.speed
Profile_ReadSpeed(p) ==
    /\ At(p, "MoveThroughJointPositions", "speed")
    /\ SetTop(p, [Top(p) EXCEPT !.r.speed = xSpeed, !.pc = "acceleration"])
    /\ UNCHANGED <<ret, calls>>
    /\ ProfileQuiet /\ UNCHANGED conf

\* createRawJointSteps: acceleration := x.acceleration, and the lock is released
Profile_ReadAccel(p) ==
    /\ At(p, "MoveThroughJointPositions", "acceleration")
    /\ SetTop(p, [Top(p) EXCEPT !.r.acceleration = xAcceleration, !.pc = "opts"])
    /\ confLock' = 0
    /\ UNCHANGED <<ret, calls, xSpeed, xAcceleration>>
    /\ ProfileQuiet

\* the locals of createRawJointSteps once the options are applied, with no
\* test for zero
overridden_Always(r) ==
    IF ~r.opts.given THEN r
    ELSE [r EXCEPT !.speed = r.opts.MaxVelRads, !.acceleration = r.opts.MaxAccRads]

\* the locals of createRawJointSteps once the options are applied
overridden(r) ==
    IF ~r.opts.given THEN r
    ELSE [r EXCEPT
            !.speed = IF r.opts.MaxVelRads # 0 THEN r.opts.MaxVelRads ELSE @,
            !.acceleration = IF r.opts.MaxAccRads # 0 THEN r.opts.MaxAccRads ELSE @]

\* createRawJointSteps: if move options were given, use those instead
Profile_Override(p) ==
    /\ At(p, "MoveThroughJointPositions", "opts")
    /\ SetTop(p, [Top(p) EXCEPT !.r = overridden(@), !.pc = "generate"])
    /\ UNCHANGED <<ret, calls>>
    /\ ProfileQuiet /\ UNCHANGED conf

\* the trajectory is generated from the locals, or DoCommand returns
Profile_Return(p) ==
    /\ stack[p] # <<>>
    /\ Top(p).pc \in {"generate", "done"}
    /\ stack' = [stack EXCEPT ![p] = <<>>]
    /\ ret' = [ret EXCEPT ![p] = IF Top(p).fn = "DoCommand" THEN Top(p).r ELSE Ok(<<>>, FALSE)]
    /\ UNCHANGED calls
    /\ ProfileQuiet /\ UNCHANGED conf

\* a driver built from a configuration that Validate accepted
InitProfile ==
    /\ conn = 1
    /\ openSocks = {1}
    /\ nDials = 1
    /\ started = TRUE
    /\ closed = FALSE
    /\ moveLock = 0
    /\ opMu = 0
    /\ curOp = 0
    /\ cancelled = [p \in Procs |-> FALSE]
    /\ stack = [p \in Procs |-> <<>>]
    /\ ret = [p \in Procs |-> NoRet]
    /\ sent = [p \in Procs |-> <<>>]
    /\ wbErr = [p \in Procs |-> "none"]
    /\ opn = [p \in Procs |-> ""]
    /\ calls = [p \in Procs |-> 0]
    /\ faulty = FALSE
    /\ fails = 0
    /\ devErrs = 0
    /\ \E s \in CfgSpeeds, a \in CfgAccels : Validate(s, a) /\ NewXArm(s, a)
    /\ NewCodec(0)

NextProfile ==
    \E p \in Procs :
        \/ Profile_Call(p)
        \/ Profile_Check(p)
        \/ Profile_Lock(p)
        \/ Profile_Store(p)
        \/ Profile_Clamp(p)
        \/ Profile_ReadSpeed(p)
        \/ Profile_ReadAccel(p)
        \/ Profile_Override(p)
        \/ Profile_Return(p)

SpecProfile == InitProfile /\ [][NextProfile]_vars

(***************************************************************************)
(* The command codec on the wire: newCmd numbers a command from x.tid,     *)
(* cmd.bytes encodes it, writeBytes writes it under x.moveLock and         *)
(* responseInLock decodes what the box sends back: seven bytes of header,  *)
(* then length - 1 bytes of params.  A byte is a number in 0..255.  A read *)
(* that does not get its bytes fails when the deadline of the call passes  *)
(* or the box closes the socket, and the connection is reset.              *)
(***************************************************************************)
Uint16(n) == n % 65536

\* binary.BigEndian.Uint16 of the bytes at i and i + 1, read low byte first
Uint16At_LittleEndian(buf, i) == buf[i + 1] * 256 + buf[i]

\* binary.BigEndian.Uint16 of the bytes at i and i + 1
Uint16At(buf, i) == buf[i] * 256 + buf[i + 1]

\* binary.BigEndian.PutUint16
PutUint16(v) == <<v \div 256, v % 256>>

\* cmd.bytes
bytes(c) ==
    PutUint16(c.tid) \o PutUint16(c.prot) \o PutUint16(Uint16(1 + Uint16(Len(c.params))))
        \o <<c.reg>> \o c.params

\* commands the callers send: SetState(0), GetError, ToggleServo(8, 1) and
\* SetMode(servoMotionMode)
CodecCmds ==
    {[reg |-> 12, params |-> <<0>>], [reg |-> 15, params |-> <<>>],
     [reg |-> 11, params |-> <<8, 1>>], [reg |-> 19, params |-> <<servoMotionMode>>]}

\* what the box sends back for the frame b of register reg: the frame itself,
\* a response with one state byte, a response that declares three params and
\* carries one, a response that declares one and carries three, and three
\* bytes only, and a header whose length field is 0
BoxKinds == {"echo", "ok", "short", "long", "cut", "zero"}
BoxBytes(kind, b, c) ==
    CASE kind = "echo" -> b
      [] kind = "ok" -> PutUint16(c.tid) \o <<0, 2, 0, 2, c.reg, 0>>
      [] kind = "short" -> PutUint16(c.tid) \o <<0, 2, 0, 4, c.reg, 0>>
      [] kind = "long" -> PutUint16(c.tid) \o <<0, 2, 0, 2, c.reg, 0, 0, 15>>
      [] kind = "zero" -> PutUint16(c.tid) \o <<0, 2, 0, 0, c.reg>>
      [] OTHER -> PutUint16(c.tid) \o <<0>>

NoCmd == [tid |-> 0, prot |-> 0, reg |-> 0, params |-> <<>>]

CodecFr(c) ==
    [Fr("newCmd", "load", c.reg, [tid |-> 0, prot |-> 0, reg |-> c.reg, params |-> c.params], FALSE)
        EXCEPT !.r = [c |-> NoCmd, length |-> 0, err |-> "none"]]

CodecQuiet == UNCHANGED <<closed, started, mgr, sent, wbErr, opn, env, conf>>

\* a goroutine builds a command and sends it
Codec_Call(p) ==
    /\ stack[p] = <<>>
    /\ calls[p] < MaxCalls
    /\ \E c \in CodecCmds : stack' = [stack EXCEPT ![p] = <<CodecFr(c)>>]
    /\ calls' = [calls EXCEPT ![p] = @ + 1]
    /\ ret' = [ret EXCEPT ![p] = NoRet]
    /\ UNCHANGED <<conn, moveLock, net, codec>>
    /\ CodecQuiet

\* newCmd, x.tid++: the field is loaded
Codec_Load(p) ==
    /\ At(p, "newCmd", "load")
    /\ SetTop(p, [Top(p) EXCEPT !.n = tid, !.pc = "store"])
    /\ UNCHANGED <<conn, moveLock, net, ret, calls, codec>>
    /\ CodecQuiet

\* newCmd, x.tid++: the incremented value is stored
Codec_Store(p) ==
    /\ At(p, "newCmd", "store")
    /\ tid' = Uint16(Top(p).n + 1)
    /\ SetTop(p, [Top(p) EXCEPT !.pc = "new"])
    /\ UNCHANGED <<conn, moveLock, net, ret, calls, wire, rxBuf>>
    /\ CodecQuiet

\* newCmd: return cmd{tid: x.tid, prot: 2, reg: reg}; the caller sets the
\* params and calls writeBytes
Codec_New(p) ==
    /\ At(p, "newCmd", "new")
    /\ SetTop(p, [Top(p) EXCEPT !.fn = "writeBytes", !.pc = "lock",
                                !.arg.tid = tid, !.arg.prot = 2])
    /\ UNCHANGED <<conn, moveLock, net, ret, calls, codec>>
    /\ CodecQuiet

\* writeBytes: x.moveLock.Lock()
Codec_Lock(p) ==
    /\ At(p, "writeBytes", "lock")
    /\ moveLock = 0
    /\ moveLock' = p
    /\ SetTop(p, [Top(p) EXCEPT !.pc = "write"])
    /\ UNCHANGED <<conn, net, ret, calls, codec>>
    /\ CodecQuiet

\* writeBytes: connect if there is no connection, encode, write; the box
\* sends its response.  chk records that no earlier byte is left unread.
Codec_Write(p) ==
    /\ At(p, "writeBytes", "write")
    /\ LET f == Top(p)
           b == bytes(f.arg)
       IN  /\ wire' = Append(wire, b)
           /\ \E kind \in BoxKinds :
                 /\ rxBuf' = rxBuf \o BoxBytes(kind, b, f.arg)
                 /\ SetTop(p, [f EXCEPT !.pc = "header", !.d = kind, !.rep = b,
                                         !.chk = (rxBuf = <<>>)])
    /\ IF conn = 0
       THEN conn' = nDials + 1 /\ nDials' = nDials + 1 /\ openSocks' = {nDials + 1}
       ELSE UNCHANGED <<conn, net>>
    /\ UNCHANGED <<moveLock, ret, calls, tid>>
    /\ CodecQuiet

\* a read failed: resetConnection, and the call returns the error
readFailed(p, f) ==
    /\ conn' = 0
    /\ openSocks' = openSocks \ {conn}
    /\ rxBuf' = <<>>
    /\ SetTop(p, [f EXCEPT !.pc = "ret", !.r.err = "io"])

\* responseInLock: utils.ReadBytes(ctx, x.conn, 7) and the header fields
Codec_Header(p) ==
    /\ At(p, "writeBytes", "header")
    /\ LET f == Top(p)
       IN  IF Len(rxBuf) < 7
           THEN readFailed(p, f)
           ELSE /\ SetTop(p, [f EXCEPT !.pc = "params",
                                       !.r.c.tid = Uint16At(rxBuf, 1),
                                       !.r.c.prot = Uint16At(rxBuf, 3),
                                       !.r.c.reg = rxBuf[7],
                                       !.r.length = Uint16At(rxBuf, 5)])
                /\ rxBuf' = SubSeq(rxBuf, 8, Len(rxBuf))
                /\ UNCHANGED <<conn, openSocks>>
    /\ UNCHANGED <<moveLock, nDials, ret, calls, tid, wire>>
    /\ CodecQuiet

\* responseInLock: utils.ReadBytes(ctx, x.conn, int(length-1)), where length
\* is a uint16 and the subtraction wraps; log keeps the number of bytes
\* asked for.  A read that does not get them all fails at the deadline.
Codec_Params(p) ==
    /\ At(p, "writeBytes", "params")
    /\ LET g == Top(p)
           n == Uint16(g.r.length + 65535)
           f == [g EXCEPT !.log = <<n>>]
       IN  IF Len(rxBuf) < n
           THEN readFailed(p, f)
           ELSE /\ SetTop(p, [f EXCEPT !.pc = "ret", !.r.c.params = SubSeq(rxBuf, 1, n)])
                /\ rxBuf' = SubSeq(rxBuf, n + 1, Len(rxBuf))
                /\ UNCHANGED <<conn, openSocks>>
    /\ UNCHANGED <<moveLock, nDials, ret, calls, tid, wire>>
    /\ CodecQuiet

\* writeBytes returns: the deferred x.moveLock.Unlock()
Codec_Return(p) ==
    /\ At(p, "writeBytes", "ret")
    /\ moveLock' = 0
    /\ stack' = [stack EXCEPT ![p] = <<>>]
    /\ ret' = [ret EXCEPT ![p] = IF Top(p).r.err = "none"
                                 THEN Ok(Top(p).r.c.params, TRUE)
                                 ELSE Err(Top(p).r.err, TRUE)]
    /\ UNCHANGED <<conn, net, calls, codec>>
    /\ CodecQuiet

\* a connected driver that has sent none, 255 or 65534 commands so far
InitCodec ==
    /\ conn = 1
    /\ openSocks = {1}
    /\ nDials = 1
    /\ started = TRUE
    /\ closed = FALSE
    /\ moveLock = 0
    /\ opMu = 0
    /\ curOp = 0
    /\ cancelled = [p \in Procs |-> FALSE]
    /\ stack = [p \in Procs |-> <<>>]
    /\ ret = [p \in Procs |-> NoRet]
    /\ sent = [p \in Procs |-> <<>>]
    /\ wbErr = [p \in Procs |-> "none"]
    /\ opn = [p \in Procs |-> ""]
    /\ calls = [p \in Procs |-> 0]
    /\ faulty = TRUE
    /\ fails = 0
    /\ devErrs = 0
    /\ NewXArm(0, 0)
    /\ \E t \in {0, 255, 65534} : NewCodec(t)

NextCodec ==
    \E p \in Procs :
        \/ Codec_Call(p)
        \/ Codec_Load(p)
        \/ Codec_Store(p)
        \/ Codec_New(p)
        \/ Codec_Lock(p)
        \/ Codec_Write(p)
        \/ Codec_Header(p)
        \/ Codec_Params(p)
        \/ Codec_Return(p)

SpecCodec == InitCodec /\ [][NextCodec]_vars

(***************************************************************************)
(* send with a box that may set the error or warning bit on any response,  *)
(* the responses of the recovery included.  resetErrorState sends SetMode  *)
(* and SetState through setMotionMode and setMotionState, that is with     *)
(* checkError, so a flagged response inside the recovery starts a recovery *)
(* of its own.  MaxNest bounds how deep the model follows that.            *)
(***************************************************************************)
MaxNest == 2

\* the records of resetErrorState on a stack: how deep the recovery is nested
RecoveryDepth(stk) == Cardinality({k \in 1..Len(stk) : stk[k].fn = "resetErrorState"})

\* a caller sends one status-checked command, setMotionState(0)
Recover_Call(p) ==
    /\ stack[p] = <<>>
    /\ calls[p] < MaxCalls
    /\ stack' = [stack EXCEPT ![p] = <<SendFr("SetState", 0, TRUE)>>]
    /\ calls' = [calls EXCEPT ![p] = @ + 1]
    /\ sent' = [sent EXCEPT ![p] = <<>>]
    /\ ret' = [ret EXCEPT ![p] = NoRet]
    /\ UNCHANGED <<xarm, net, mgr, wbErr, opn, env, conf, codec>>

\* responseInLock: the box answers, flagging the response or not
Recover_Read(p) ==
    /\ At(p, "writeBytes", "read")
    /\ moveLock = p
    /\ \E params \in Responses(Top(p).reg, RecoveryDepth(stack[p]) < MaxNest) :
          WbReturn(p, Ok(params, TRUE))
    /\ UNCHANGED <<conn, closed, started, net, mgr, sent, opn, calls, env, conf, codec>>

InitRecover ==
    /\ conn = 1
    /\ openSocks = {1}
    /\ nDials = 1
    /\ started = TRUE
    /\ closed = FALSE
    /\ moveLock = 0
    /\ opMu = 0
    /\ curOp = 0
    /\ cancelled = [p \in Procs |-> FALSE]
    /\ stack = [p \in Procs |-> <<>>]
    /\ ret = [p \in Procs |-> NoRet]
    /\ sent = [p \in Procs |-> <<>>]
    /\ wbErr = [p \in Procs |-> "none"]
    /\ opn = [p \in Procs |-> ""]
    /\ calls = [p \in Procs |-> 0]
    /\ faulty = FALSE
    /\ fails = 0
    /\ devErrs = 0
    /\ NewXArm(0, 0)
    /\ NewCodec(0)

\* one caller: the nesting is within one goroutine
NextRecover ==
    \/ Recover_Call(1)
    \/ Send_Entry(1)
    \/ WB_Lock(1)
    \/ Recover_Read(1)
    \/ Send_Return(1)

SpecRecover == InitRecover /\ [][NextRecover]_vars

\* every caller: the goroutines of concurrent calls share the socket and
\* take moveLock once per round trip
NextShared ==
    \E p \in Procs :
        \/ Recover_Call(p)
        \/ Send_Entry(p)
        \/ WB_Lock(p)
        \/ Recover_Read(p)
        \/ Send_Return(p)

SpecShared == InitRecover /\ [][NextShared]_vars

(***************************************************************************)
(* A stream and a reader on one socket.  Goroutine 1 calls                 *)
(* MoveThroughJointPositions, which takes no part in the operation         *)
(* manager; the others call JointPositions.  The arm is connected and      *)
(* started, and the network may let MaxFails socket operations fail.       *)
(***************************************************************************)
Stream_Call(p) ==
    /\ stack[p] = <<>>
    /\ calls[p] < MaxCalls
    /\ LET op == IF p = 1 THEN "MoveThroughJointPositions" ELSE "JointPositions"
       IN  /\ opn' = [opn EXCEPT ![p] = op]
           /\ stack' = [stack EXCEPT ![p] =
                 <<OpFr(op, "done")>> \o (IF p = 1 THEN MoveThroughFrs ELSE JointPosFrs)]
    /\ calls' = [calls EXCEPT ![p] = @ + 1]
    /\ sent' = [sent EXCEPT ![p] = <<>>]
    /\ wbErr' = [wbErr EXCEPT ![p] = "none"]
    /\ ret' = [ret EXCEPT ![p] = NoRet]
    /\ UNCHANGED <<xarm, moveLock, net, mgr, env, conf, codec>>

InitStream ==
    /\ conn = 1
    /\ openSocks = {1}
    /\ nDials = 1
    /\ started = TRUE
    /\ closed = FALSE
    /\ moveLock = 0
    /\ opMu = 0
    /\ curOp = 0
    /\ cancelled = [p \in Procs |-> FALSE]
    /\ stack = [p \in Procs |-> <<>>]
    /\ ret = [p \in Procs |-> NoRet]
    /\ sent = [p \in Procs |-> <<>>]
    /\ wbErr = [p \in Procs |-> "none"]
    /\ opn = [p \in Procs |-> ""]
    /\ calls = [p \in Procs |-> 0]
    /\ faulty = TRUE
    /\ fails = 0
    /\ devErrs = 0
    /\ NewXArm(0, 0)
    /\ NewCodec(0)

NextStream ==
    \E p \in Procs :
        \/ Stream_Call(p)
        \/ WB_Lock(p)
        \/ WB_Read(p)
        \/ Send_Entry(p)
        \/ Send_Return(p)
        \/ Start_Entry(p)
        \/ Start_State(p)
        \/ Exec_Sent(p)
        \/ Through_Checked(p)
        \/ Through_Current(p)
        \/ Op_Return(p)

SpecStream == InitStream /\ [][NextStream]_vars

(***************************************************************************)
(* The readers of a response's params.  Goroutine 1 is in JointPositions   *)
(* or in getLoad of an arm with dof joints, and writeBytes has returned    *)
(* to send a response with params of any length up to MaxParams.  A read   *)
(* of an index at or above the length ends in d = "beyond": the index      *)
(* expression resp.params[0] panics, and the slice expression              *)
(* params[idx : idx+4] panics when idx+4 is above the capacity of the      *)
(* buffer and otherwise yields bytes that are not part of the response.    *)
(***************************************************************************)
MaxParams == 30

Dofs == {6, 7}

ParamOps == {"JointPositions", "getLoad"}

\* the record of op on an arm with dof joints whose send has the response
ParamsFr(op, dof, params) == [Fr(op, "wb", "", dof, TRUE) EXCEPT !.r = Ok(params, TRUE)]

\* send after writeBytes: state := resp.params[0], then the test of the
\* error and warning bits, which are not set here
Params_Status(p) ==
    /\ stack[p] # <<>>
    /\ Top(p).pc = "wb"
    /\ Top(p).fn \in ParamOps
    /\ SetTop(p, IF Len(Top(p).r.params) < 1
                 THEN [Top(p) EXCEPT !.pc = "ret", !.d = "beyond"]
                 ELSE [Top(p) EXCEPT !.pc = "got"])

\* JointPositions after send: len(jData.params) < x.dof*4 is an error; then
\* for i < dof the slice params[i*4+1 : i*4+5]
Params_Joint(p) ==
    /\ At(p, "JointPositions", "got")
    /\ LET f == Top(p)
           len == Len(f.r.params)
       IN  SetTop(p, IF len < f.arg * 4
                     THEN [f EXCEPT !.pc = "ret", !.d = "unexpected return"]
                     ELSE IF (f.arg - 1) * 4 + 5 > len
                     THEN [f EXCEPT !.pc = "ret", !.d = "beyond"]
                     ELSE [f EXCEPT !.pc = "ret", !.n = (f.arg - 1) * 4 + 5])

\* getLoad after send: for i < dof the slice params[i*4+1 : i*4+5], with no
\* test of the length
Params_Load(p) ==
    /\ At(p, "getLoad", "got")
    /\ LET f == Top(p)
           len == Len(f.r.params)
       IN  SetTop(p, IF (f.arg - 1) * 4 + 5 > len
                     THEN [f EXCEPT !.pc = "ret", !.d = "beyond"]
                     ELSE [f EXCEPT !.pc = "ret", !.n = (f.arg - 1) * 4 + 5])

InitParams ==
    /\ conn = 1
    /\ openSocks = {1}
    /\ nDials = 1
    /\ started = TRUE
    /\ closed = FALSE
    /\ moveLock = 0
    /\ opMu = 0
    /\ curOp = 0
    /\ cancelled = [p \in Procs |-> FALSE]
    /\ \E op \in ParamOps, dof \in Dofs, len \in 0..MaxParams :
          stack = [p \in Procs |->
                     IF p = 1 THEN <<ParamsFr(op, dof, [i \in 1..len |-> 0])>> ELSE <<>>]
    /\ ret = [p \in Procs |-> NoRet]
    /\ sent = [p \in Procs |-> <<>>]
    /\ wbErr = [p \in Procs |-> "none"]
    /\ opn = [p \in Procs |-> ""]
    /\ calls = [p \in Procs |-> IF p = 1 THEN 1 ELSE 0]
    /\ faulty = FALSE
    /\ fails = 0
    /\ devErrs = 0
    /\ NewXArm(0, 0)
    /\ NewCodec(0)

NextParams ==
    \/ Params_Status(1) /\ Quiet /\ UNCHANGED ret
    \/ Params_Joint(1) /\ Quiet /\ UNCHANGED ret
    \/ Params_Load(1) /\ Quiet /\ UNCHANGED ret

SpecParams == InitParams /\ [][NextParams]_vars

(***************************************************************************)
(* The queries of DoCommand.  The branches of get_state and get_error      *)
(* build a GetState or a GetError command and send it with checkError, and *)
(* return the params of the response.  The box reports an error code and a *)
(* warning code or none, and sets the error and the warning bit of the     *)
(* state byte of every response, that of GetError included, accordingly;   *)
(* from the nesting depth MaxNest on it reports none.                      *)
(***************************************************************************)
QueryKeys == {"get_state", "get_error"}

QueryReg(key) == IF key = "get_state" THEN "GetState" ELSE "GetError"

\* the state byte of a box that reports the codes c
StateOf(c) == (IF c[1] # 0 THEN 64 ELSE 0) + (IF c[2] # 0 THEN 32 ELSE 0)

QueryResponses(reg, mayErr) ==
    LET cs == IF mayErr THEN Codes ELSE {<<0, 0>>}
    IN  IF reg = "GetError"
        THEN {<<StateOf(c), c[1], c[2]>> : c \in cs}
        ELSE {<<StateOf(c), 1, 0>> : c \in cs}

\* DoCommand with the key get_state or get_error
Query_Call(p) ==
    /\ stack[p] = <<>>
    /\ calls[p] < MaxCalls
    /\ \E key \in QueryKeys :
          /\ opn' = [opn EXCEPT ![p] = key]
          /\ stack' = [stack EXCEPT ![p] = <<SendFr(QueryReg(key), 0, TRUE)>>]
    /\ calls' = [calls EXCEPT ![p] = @ + 1]
    /\ sent' = [sent EXCEPT ![p] = <<>>]
    /\ ret' = [ret EXCEPT ![p] = NoRet]
    /\ UNCHANGED <<xarm, net, mgr, wbErr, env, conf, codec>>

\* responseInLock: the box answers
Query_Read(p) ==
    /\ At(p, "writeBytes", "read")
    /\ moveLock = p
    /\ \E params \in QueryResponses(Top(p).reg, RecoveryDepth(stack[p]) < MaxNest) :
          WbReturn(p, Ok(params, TRUE))
    /\ UNCHANGED <<conn, closed, started, net, mgr, sent, opn, calls, env, conf, codec>>

NextQuery ==
    \/ Query_Call(1)
    \/ Send_Entry(1)
    \/ WB_Lock(1)
    \/ Query_Read(1)
    \/ Send_Return(1)

SpecQuery == InitRecover /\ [][NextQuery]_vars

(***************************************************************************)
(* The reconnect of arm/xarm.go, whose connect calls x.start after the     *)
(* dial (the later connect only dials and clears the started flag; it is   *)
(* the one WB_Lock follows).  The driver was started; its connection is    *)
(* open, or was reset after a failed round trip, which leaves started as   *)
(* it was.  The goroutines call Stop and JointPositions; the network and   *)
(* the box do not fail.                                                    *)
(***************************************************************************)
RedialOps == {"Stop", "JointPositions"}

\* Stop: x.started.Store(false), then setMotionState(3) and x.start
Redial_Call(p) ==
    /\ stack[p] = <<>>
    /\ calls[p] < MaxCalls
    /\ \E op \in RedialOps :
          /\ opn' = [opn EXCEPT ![p] = op]
          /\ started' = IF op = "Stop" THEN FALSE ELSE started
          /\ stack' = [stack EXCEPT ![p] =
                IF op = "Stop"
                THEN <<OpFr(op, "stop_ss"), SendFr("SetState", 3, TRUE)>>
                ELSE <<OpFr(op, "done")>> \o JointPosFrs]
    /\ calls' = [calls EXCEPT ![p] = @ + 1]
    /\ sent' = [sent EXCEPT ![p] = <<>>]
    /\ wbErr' = [wbErr EXCEPT ![p] = "none"]
    /\ ret' = [ret EXCEPT ![p] = NoRet]
    /\ UNCHANGED <<conn, closed, moveLock, net, mgr, env, conf, codec>>

\* writeBytes: x.moveLock.Lock(); with a connection the frame is written;
\* with x.conn == nil, x.connect(ctx): the dial, then x.start(ctx), called
\* with moveLock held
Redial_Lock(p) ==
    /\ At(p, "writeBytes", "lock")
    /\ Lock
    /\ moveLock' = p
    /\ IF conn # 0
       THEN /\ sent' = [sent EXCEPT ![p] = Append(@, <<Top(p).reg, Top(p).arg>>)]
            /\ Step(p, [Top(p) EXCEPT !.pc = "read"], <<>>)
            /\ UNCHANGED <<conn, nDials, openSocks>>
       ELSE /\ nDials' = nDials + 1
            /\ conn' = nDials + 1
            /\ openSocks' = openSocks \cup {nDials + 1}
            /\ Step(p, [Top(p) EXCEPT !.pc = "connect"], <<StartFr>>)
            /\ UNCHANGED sent
    /\ UNCHANGED <<closed, started, mgr, wbErr, opn, calls, env, conf, codec>>

\* writeBytes after x.connect(ctx): connect closes the socket when x.start
\* failed, and writeBytes returns the error; otherwise the frame is written
Redial_Connected(p) ==
    /\ At(p, "writeBytes", "connect")
    /\ moveLock = p
    /\ IF ret[p].err # "none"
       THEN /\ conn' = 0
            /\ openSocks' = openSocks \ {conn}
            /\ WbReturn(p, Err("start", FALSE))
            /\ UNCHANGED sent
       ELSE /\ sent' = [sent EXCEPT ![p] = Append(@, <<Top(p).reg, Top(p).arg>>)]
            /\ Step(p, [Top(p) EXCEPT !.pc = "read"], <<>>)
            /\ UNCHANGED <<conn, openSocks, moveLock, wbErr>>
    /\ UNCHANGED <<closed, started, nDials, mgr, opn, calls, env, conf, codec>>

InitRedial ==
    /\ \E c \in {0, 1} :
          /\ conn = c
          /\ openSocks = IF c = 0 THEN {} ELSE {1}
    /\ nDials = 1
    /\ started = TRUE
    /\ closed = FALSE
    /\ moveLock = 0
    /\ opMu = 0
    /\ curOp = 0
    /\ cancelled = [p \in Procs |-> FALSE]
    /\ stack = [p \in Procs |-> <<>>]
    /\ ret = [p \in Procs |-> NoRet]
    /\ sent = [p \in Procs |-> <<>>]
    /\ wbErr = [p \in Procs |-> "none"]
    /\ opn = [p \in Procs |-> ""]
    /\ calls = [p \in Procs |-> 0]
    /\ faulty = FALSE
    /\ fails = 0
    /\ devErrs = 0
    /\ NewXArm(0, 0)
    /\ NewCodec(0)

NextRedial ==
    \E p \in Procs :
        \/ Redial_Call(p)
        \/ Send_Entry(p)
        \/ Redial_Lock(p)
        \/ Redial_Connected(p)
        \/ WB_Read(p)
        \/ Start_Entry(p)
        \/ Start_State(p)
        \/ Op_Return(p)

SpecRedial == InitRedial /\ [][NextRedial]_vars

(***************************************************************************)
(* Claims.                                                                 *)
(***************************************************************************)

\* p has written a frame and its response has not been read: p is inside
\* a round trip
InRoundTrip(p) == At(p, "writeBytes", "read")

\* C1: round trips never overlap on the wire: while one goroutine is between
\* the write of its frame and the read of its response, no other goroutine
\* has written a frame whose response is outstanding, and the goroutine
\* inside the round trip is the one that holds the move lock.
C1_RoundTripsDoNotOverlap ==
    \A p, q \in Procs :
        InRoundTrip(p) =>
            /\ moveLock = p
            /\ InRoundTrip(q) => q = p

\* a goroutine is inside a round trip while another one has called
\* writeBytes and waits for the lock
C1_Witness ==
    \E p, q \in Procs :
        /\ p # q
        /\ InRoundTrip(p)
        /\ At(q, "writeBytes", "lock")

\* p's call of writeBytes returns in this step
WbReturns(p) ==
    /\ stack[p] # <<>>
    /\ Top(p).fn = "writeBytes"
    /\ stack'[p] # stack[p]
    /\ ~InRoundTrip(p)'

\* C2: when a call of writeBytes returns an error (the dial, the deadline,
\* the write or a read failed), x.conn is nil and no socket is left open,
\* and the call has written no frame while failing; and a frame written when
\* x.conn is nil is written to a connection dialled in the same call.
C2_FailureResetsConnection ==
    [][\A p \in Procs :
          /\ (WbReturns(p) /\ wbErr'[p] # "none") =>
                /\ conn' = 0
                /\ openSocks' = {}
                /\ sent'[p] = sent[p]
          /\ (Len(sent'[p]) > Len(sent[p]) /\ conn = 0) =>
                /\ nDials' = nDials + 1
                /\ conn' = nDials'
                /\ conn' \in openSocks']_vars

\* after a call of writeBytes that failed on an open connection, the
\* goroutine is inside the round trip of its next call, on a new connection
C2_Witness ==
    \E p \in Procs :
        /\ wbErr[p] = "io"
        /\ fails > 0
        /\ InRoundTrip(p)
        /\ nDials > 1
        /\ conn = nDials

MotionOps == {"MoveToJointPositions", "MoveThroughJointPositions", "MoveToPosition"}

\* p runs a motion operation whose context is not done and is in the loop
\* of executeInputs, having written a MoveJoints frame
Streaming(p) ==
    /\ opn[p] \in MotionOps
    /\ ~cancelled[p]
    /\ \E i \in 1..Len(stack[p]) :
          stack[p][i].fn = "executeInputs" /\ stack[p][i].pc = "sent"
    /\ \E i \in 1..Len(sent[p]) : sent[p][i][1] = "MoveJoints"

\* C3: at most one motion operation is active at a time: two goroutines are
\* never both streaming MoveJoints frames with contexts that are not done.
C3_OneMotionOperation ==
    \A p, q \in Procs : (Streaming(p) /\ Streaming(q)) => p = q

\* C4: once the context of a goroutine's operation is done the goroutine
\* writes no further MoveJoints frame, and the round trip of a MoveJoints
\* frame already written is not aborted by the context.
C4_CancelBeforeNextFrame ==
    [][\A p \in Procs :
          /\ (cancelled[p] /\ Len(sent'[p]) > Len(sent[p])) =>
                Last(sent'[p])[1] # "MoveJoints"
          /\ (InRoundTrip(p) /\ Top(p).reg = "MoveJoints" /\ WbReturns(p)) =>
                wbErr'[p] # "ctx"]_vars

\* p is at the return of a send that handled an error report: a response
\* with the error or warning bit set, and the codes GetError reported
Handled(p) == At(p, "send", "ret") /\ Top(p).rep # <<>>
ErrCode(p) == Top(p).rep[1]
WarnCode(p) == Top(p).rep[2]

\* the reported error code is in the error table and is not the collision code
Recognized(p) == ErrCode(p) \in armBoxErrorMap \ {errCodeCollision}

\* the frames of the recovery: ClearError, ClearWarn, SetMode(servo), SetState(0)
RecoveryFrames ==
    <<<<"ClearError", 0>>, <<"ClearWarn", 0>>, <<"SetMode", servoMotionMode>>, <<"SetState", 0>>>>

\* the frames p wrote after the error report its send handled
FramesAfterReport(p) == SubSeq(sent[p], Top(p).n + 1, Len(sent[p]))

\* C5 as stated: a send that handled a report with a recognized code other
\* than the collision code has written ClearError, ClearWarn, SetMode(servo)
\* and SetState(0), in that order, when it returns, and returns an error.
C5_RecoveryFramesWritten ==
    \A p \in Procs :
        (Handled(p) /\ Recognized(p)) =>
            /\ FramesAfterReport(p) = RecoveryFrames
            /\ Top(p).r.err # "none"

\* C5, amended: such a send has attempted the four commands in that order,
\* each whatever the earlier ones returned; the frame of a command is on the
\* wire, after the frames of the commands before it, unless the send of that
\* command failed because the driver was closed or the connection failed;
\* and the send returns an error.
C5_RecoveryAttempted ==
    \A p \in Procs :
        (Handled(p) /\ Recognized(p)) =>
            LET log == Top(p).log
            IN  /\ Len(log) = 4
                /\ log[1].at >= Top(p).n
                /\ \A k \in 1..4 :
                      IF log[k].wrote
                      THEN /\ log[k].at < Len(sent[p])
                           /\ sent[p][log[k].at + 1] = RecoveryFrames[k]
                      ELSE log[k].err \in {"closed", "io", "ctx"}
                /\ \A k \in 1..3 :
                      /\ log[k].at <= log[k + 1].at
                      /\ log[k].wrote => log[k].at < log[k + 1].at
                /\ Top(p).r.err # "none"

\* a send that handled a recognized report returns after a recovery in which
\* all four frames were written
C5_Witness ==
    \E p \in Procs :
        /\ Handled(p)
        /\ Recognized(p)
        /\ FramesAfterReport(p) = RecoveryFrames
        /\ \A k \in 1..4 : Top(p).log[k].wrote

\* C6: a send that handled a report with the collision code returns an
\* error and has written no frame after the report: no ClearError,
\* ClearWarn, SetMode or SetState.
C6_CollisionNotCleared ==
    \A p \in Procs :
        (Handled(p) /\ ErrCode(p) = errCodeCollision) =>
            /\ Top(p).r.err # "none"
            /\ FramesAfterReport(p) = <<>>

\* a send returns after a report with the collision code
C6_Witness ==
    \E p \in Procs :
        /\ Handled(p)
        /\ ErrCode(p) = errCodeCollision
        /\ Last(sent[p]) = <<"GetError", 0>>

\* the reported codes are in neither table
Unknown(p) == ErrCode(p) \notin armBoxErrorMap /\ WarnCode(p) \notin armBoxWarnMap

\* C7 as stated: a send that handled a report with codes in neither table,
\* or with the collision code, returns an error and has written no frame
\* after the report.
C7_OnlyRecoverableRecovers ==
    \A p \in Procs :
        (Handled(p) /\ (Unknown(p) \/ ErrCode(p) = errCodeCollision)) =>
            /\ Top(p).r.err # "none"
            /\ FramesAfterReport(p) = <<>>

\* C7, amended: only the collision code keeps send from recovering.  A send
\* that handled a report returns an error; with the collision code it has
\* not called resetErrorState; with any other code, the codes of neither
\* table included, it has called it, and every frame that recovery wrote is
\* the frame of the command in its place.
C7_RecoveryUnlessCollision ==
    \A p \in Procs :
        Handled(p) =>
            /\ Top(p).r.err # "none"
            /\ IF ErrCode(p) = errCodeCollision
               THEN Top(p).log = <<>>
               ELSE /\ Len(Top(p).log) = 4
                    /\ \A k \in 1..4 :
                          Top(p).log[k].wrote =>
                              sent[p][Top(p).log[k].at + 1] = RecoveryFrames[k]

\* a send returns after a report with codes of neither table, having
\* written the four frames of the recovery
C7_Witness ==
    \E p \in Procs :
        /\ Handled(p)
        /\ Unknown(p)
        /\ FramesAfterReport(p) = RecoveryFrames

\* the category of a report with error code e and warning code w
Category(e, w) ==
    IF e = errCodeCollision THEN "collision"
    ELSE IF e \in armBoxErrorMap \/ w \in armBoxWarnMap THEN "known"
    ELSE "unknown"

\* C8: every report (error code, warning code) is handled as exactly one of
\* three kinds of error: the collision error if and only if the error code
\* is the collision code; otherwise the error of the tables if and only if
\* the error code is in the error table or the warning code is in the
\* warning table; otherwise the unknown error.  No report is handled as
\* success, and only a collision report returns without the recovery.
C8_Classification ==
    \A p \in Procs :
        \A i \in 1..Len(stack[p]) :
            LET f == stack[p][i]
            IN  (f.fn = "send" /\ f.rep # <<>>) =>
                    /\ f.d = Category(f.rep[1], f.rep[2])
                    /\ f.d # "none"
                    /\ (f.pc = "ret" /\ f.log = <<>>) => f.r.err = f.d
                    /\ (f.pc = "ret" /\ f.log = <<>>) <=> f.d = "collision"

\* a report whose error code is not in the error table and whose warning
\* code is in the warning table has been handled as an error of the tables
C8_Witness ==
    \E i \in 1..Len(stack[1]) :
        /\ stack[1][i].fn = "send"
        /\ stack[1][i].rep # <<>>
        /\ stack[1][i].rep[1] \notin armBoxErrorMap
        /\ stack[1][i].rep[2] \in armBoxWarnMap
        /\ stack[1][i].d = "known"

\* p is at the return of the operation op
Returning(p, op) == At(p, "op", "ret") /\ Top(p).reg = op

\* the frames of a shutdown: ToggleBrake(engage), ToggleServo(disable), SetState(4)
CloseFrames == <<<<"ToggleBrake", 0>>, <<"ToggleServo", 0>>, <<"SetState", 4>>>>

\* C9: a Close that found an open connection has written ToggleBrake(engage)
\* first, unless the connection failed; and when it returns nil it has
\* written ToggleBrake(engage), ToggleServo(disable) and SetState(4) in that
\* order, the socket is closed and x.conn is nil.
C9_CloseShutsDown ==
    \A p \in Procs :
        (Returning(p, "Close") /\ Top(p).arg # 0) =>
            /\ Top(p).r.err \notin {"io", "ctx"} =>
                  (sent[p] # <<>> /\ sent[p][1] = CloseFrames[1])
            /\ Top(p).r.err = "none" =>
                  (sent[p] = CloseFrames /\ conn = 0 /\ openSocks = {})

ManagedOps == {"MoveToJointPositions", "MoveToPosition", "Stop"}

\* p runs the body of an operation registered with x.opMgr
InBody(p) ==
    /\ stack[p] # <<>>
    /\ stack[p][1].reg \in ManagedOps
    /\ stack[p][1].pc \notin {"new", "wait"}

\* a frame that disables the arm or engages its brakes
Disabling(fr) == fr \in {<<"ToggleBrake", 0>>, <<"ToggleServo", 0>>, <<"SetState", 4>>}

StartFrames == <<<<"ToggleServo", 1>>, <<"SetMode", servoMotionMode>>, <<"SetState", 0>>>>

C11_NoIOAfterClose ==
    [][closed => (sent' = sent /\ nDials' = nDials)]_vars

\* the MoveJoints frames among the frames p wrote
MoveJointsOf(p) == SelectSeq(sent[p], LAMBDA fr : fr[1] = "MoveJoints")

\* one MoveJoints frame per step, for the steps 1..n in order
StepFrames(n) == [i \in 1..n |-> <<"MoveJoints", i>>]

\* C12: whenever executeInputs has sent a step without error, the MoveJoints
\* frames written so far are the steps up to that one, one frame per step
\* in sequence order; so when it completes it has written exactly the
\* generated steps, each once.  An operation that returns nil has written
\* the MoveJoints frames of a whole step sequence and no other.
C12_FramesAreSteps ==
    \A p \in Procs :
        /\ At(p, "executeInputs", "sent") =>
              /\ Top(p).n \in 1..Top(p).arg
              /\ MoveJointsOf(p) = StepFrames(Top(p).n)
        /\ (At(p, "op", "ret") /\ Top(p).r.err = "none") =>
              MoveJointsOf(p) = StepFrames(Len(MoveJointsOf(p)))

\* executeInputs has sent the last of NumSteps steps and its context is not done
C12_Witness ==
    \E p \in Procs :
        /\ At(p, "executeInputs", "sent")
        /\ ~cancelled[p]
        /\ Top(p).arg = NumSteps
        /\ Top(p).n = NumSteps
        /\ MoveJointsOf(p) = StepFrames(NumSteps)

\* createRawJointSteps has returned steps to goroutine p
Generated(p) == At(p, "createRawJointSteps", "ret") /\ Top(p).d = "none"

\* the call of p has a single waypoint and the default speed and acceleration
SingleDefault(p) ==
    /\ Len(Top(p).arg.inputSteps) = 1
    /\ Top(p).arg.speed = defaultSpeed
    /\ Top(p).arg.acceleration = defaultAccel

\* the displacement of the dominant joint from the start to the first waypoint
Displacement(p) == floatMaxDiff(Top(p).arg.startInputs, Top(p).arg.inputSteps[1])

\* C13: for a single waypoint with dominant-joint displacement d, at the
\* default speed s and the default acceleration, the number n of generated
\* steps satisfies (d/s)*100 < n < (d/s)*100 + 20.  With s the distance of
\* one sample at 100 Hz this is d < n*s < d + 20*s.
C13_StepCountWithinEstimate ==
    \A p \in Procs :
        (Generated(p) /\ SingleDefault(p)) =>
            LET n == Len(Top(p).rep)
            IN  /\ Displacement(p) < n * defaultSpeed
                /\ n * defaultSpeed < Displacement(p) + 20 * defaultSpeed

\* the start configuration followed by the generated steps
Path(p) == <<Top(p).arg.startInputs>> \o Top(p).rep

\* the largest per-joint distance from element i of the path to the next
StepDistance(p, i) == floatMaxDiff(Path(p)[i], Path(p)[i + 1])

\* C14: in every generated step sequence the largest per-joint distance
\* between two consecutive elements, and between the start configuration and
\* the first element, is at most the distance the speed limit allows in one
\* sample, the junction of the two phases included.
C14_StepsWithinSpeed ==
    \A p \in Procs :
        Generated(p) =>
            \A i \in 1..Len(Top(p).rep) : StepDistance(p, i) <= Top(p).arg.speed

\* a step up to element i + 1 of the path was as long as the speed limit
\* allows: cruise speed has been reached
Cruising(p, i) == \E j \in 1..i : StepDistance(p, j) >= Top(p).arg.speed

\* what the acceleration limit allows the step distance to change by in one
\* sample: the acceleration, or the inter-waypoint constant as the code
\* computes it once cruise speed has been reached
AccelCap(p, i) ==
    IF Cruising(p, i) /\ interwaypointAccelStep > Top(p).arg.acceleration
    THEN interwaypointAccelStep
    ELSE Top(p).arg.acceleration

\* C15: in every generated step sequence the step distance changes from one
\* sample to the next by no more than the acceleration limit allows in one
\* sample (by no more than the inter-waypoint constant once cruise speed is
\* reached), at the waypoints and at the junction of the two phases too.
C15_StepsWithinAcceleration ==
    \A p \in Procs :
        Generated(p) =>
            \A i \in 1..(Len(Top(p).rep) - 1) :
                Abs(StepDistance(p, i + 1) - StepDistance(p, i)) <= AccelCap(p, i + 1)

\* every waypoint of p's call equals the start configuration (there may be none)
ZeroDisplacement(p) ==
    \A i \in 1..Len(Top(p).arg.inputSteps) :
        Top(p).arg.inputSteps[i] = Top(p).arg.startInputs

\* C16: a request whose waypoints all equal the start configuration, or that
\* has no waypoint, returns the empty step sequence and no error: the
\* generator never calls Interpolate and never indexes the empty decelSteps,
\* and MoveThroughJointPositions then writes no MoveJoints frame.
C16_ZeroDisplacementIsEmpty ==
    \A p \in Procs :
        /\ (stack[p] # <<>> /\ Top(p).fn = "createRawJointSteps" /\ ZeroDisplacement(p)) =>
              /\ Top(p).d = "none"
              /\ Top(p).rep = <<>>
              /\ Top(p).pc # "entry" => Top(p).r.steps = <<>> /\ Top(p).r.calls = 0
        /\ (stack[p] # <<>> /\ Top(p).fn = "MoveThroughJointPositions"
              /\ Top(p).pc \in {"ex", "ret"} /\ ZeroDisplacement(p)) =>
              /\ Top(p).r = NoRet
              /\ sent[p] = <<>>

\* the generator has returned for two waypoints equal to the start and a
\* kinematic model whose first interpolation would fail
C16_Witness ==
    \E p \in Procs :
        /\ Generated(p)
        /\ ZeroDisplacement(p)
        /\ Len(Top(p).arg.inputSteps) = MaxWaypoints
        /\ Top(p).arg.failAt = 1

\* the call of Interpolate that fails has been made in p's generation
InterpolateFailed(f) == f.arg.failAt > 0 /\ f.n >= f.arg.failAt

\* C17: if a call of Interpolate fails, in the deceleration or in the
\* acceleration pass, createRawJointSteps returns at that call with the
\* error and no step sequence, and MoveThroughJointPositions returns the
\* error without having written a MoveJoints frame; and only then does
\* either of them return an error.
C17_InterpolationErrorPropagates ==
    \A p \in Procs :
        /\ (stack[p] # <<>> /\ Top(p).fn = "createRawJointSteps" /\ Top(p).pc # "entry") =>
              LET g == Top(p)
              IN  /\ (g.arg.failAt > 0 /\ g.r.calls >= g.arg.failAt) <=> g.d = "interpolate"
                  /\ g.d = "interpolate" =>
                        /\ g.pc = "ret"
                        /\ g.rep = <<>>
                        /\ g.r.calls = g.arg.failAt
        /\ (stack[p] # <<>> /\ Top(p).fn = "MoveThroughJointPositions"
              /\ Top(p).pc \in {"ex", "ret"}) =>
              LET f == Top(p)
              IN  /\ InterpolateFailed(f) <=> f.r.err = "interpolate"
                  /\ InterpolateFailed(f) =>
                        /\ f.pc = "ret"
                        /\ f.r = Err("interpolate", FALSE)
                        /\ MoveJointsOf(p) = <<>>
                  /\ MoveJointsOf(p) # <<>> => f.r.err = "none"

\* MoveThroughJointPositions has returned the error of an interpolation that
\* failed in the acceleration pass, after the deceleration pass made steps
C17_Witness ==
    \E p \in Procs :
        /\ At(p, "MoveThroughJointPositions", "ret")
        /\ Top(p).r.err = "interpolate"
        /\ Top(p).reg = "accel"
        /\ Top(p).n = MaxFailAt

\* goToPosition is about to return the position Top(p).r.res.params[1] and
\* no error
GoToSucceeded(p) == At(p, "goToPosition", "ret") /\ Top(p).r.res.err = "none"

\* C18: goToPosition returns a position without error only when it is the
\* position of the last poll and either it is within 6 of the goal, or an
\* earlier poll of the call (the one before it) returned a position within
\* 3 of it; a call that returns at its first poll returns a position within
\* 6 of the goal.
C18_ReturnsLastPolled ==
    \A p \in Procs :
        GoToSucceeded(p) =>
            LET l == Top(p).r
                pos == l.res.params[1]
            IN  /\ l.polls >= 1
                /\ pos = l.last
                /\ \/ Abs(pos - Top(p).arg) <= goalTolerance
                   \/ l.polls >= 2 /\ Abs(pos - l.prev) <= stallTolerance
                /\ l.polls = 1 => Abs(pos - Top(p).arg) <= goalTolerance

\* a call returns a stalled position that is not within the tolerance
C18_Witness ==
    \E p \in Procs :
        /\ GoToSucceeded(p)
        /\ Top(p).r.polls >= 2
        /\ Abs(Top(p).r.last - Top(p).arg) > goalTolerance
        /\ Abs(Top(p).r.last - Top(p).r.prev) <= stallTolerance

\* p is inside a call of goToPosition
InGoTo(p) == stack[p] # <<>> /\ Top(p).fn = "goToPosition"

\* the last poll of p's call met the tolerance or the stall condition
Converged(p) ==
    LET l == Top(p).r
    IN  \/ Abs(l.last - Top(p).arg) <= goalTolerance
        \/ l.polls >= 2 /\ l.prev >= 0 /\ Abs(l.last - l.prev) <= stallTolerance

\* what C19 says of a state: an error of the move command or of a poll is
\* returned as it is; a call that has polled and goes on polling has not
\* been running for more than 2 s and its last poll did not converge; the
\* timeout error is returned after a poll that did not converge and that
\* completed more than 2 s after the start, and it carries the goal and the
\* elapsed time.
GoToEnds(p) ==
    InGoTo(p) =>
        LET l == Top(p).r
        IN  /\ Top(p).pc = "poll" /\ l.polls >= 1 =>
                  l.elapsed <= goToTimeout /\ ~Converged(p)
            /\ Top(p).pc = "ret" /\ l.res.err = "move" => l.polls = 0 /\ l.elapsed = 0
            /\ l.failed <=> (Top(p).pc = "ret" /\ l.res.err = "poll")
            /\ Top(p).pc = "ret" /\ l.res.err = "timeout" =>
                  /\ ~Converged(p)
                  /\ l.elapsed > goToTimeout
                  /\ l.res.params = <<Top(p).arg, l.elapsed>>
            /\ Top(p).pc = "ret" => l.res.err \in {"none", "move", "poll", "timeout"}

\* C19: goToPosition always terminates.  A failed move command or a failed
\* poll ends it at once with that error; if neither the tolerance nor the
\* stall condition is met, the first poll that completes more than 2 s after
\* the start ends it with a timeout error that names the goal and the
\* elapsed time; and every call returns.
C19_GoToTerminates ==
    /\ [](\A p \in Procs : GoToEnds(p))
    /\ \A p \in Procs : InGoTo(p) ~> ~InGoTo(p)

\* a call has timed out after more than one poll
C19_Witness ==
    \E p \in Procs :
        /\ At(p, "goToPosition", "ret")
        /\ Top(p).r.res.err = "timeout"
        /\ Top(p).r.polls > 2

\* DoCommand is about to return to p
DoReturning(p) == At(p, "DoCommand", "ret")

\* the keys of p's request that DoCommand tests
Recognized20(p) == Top(p).arg \cap {doKeys[i] : i \in 1..Len(doKeys)}

\* the keys of the request cmd that DoCommand tests, in the order of its
\* tests, up to the first whose branch returns at once
RECURSIVE KeysFrom(_, _)
KeysFrom(cmd, n) ==
    IF n > Len(doKeys) THEN <<>>
    ELSE IF doKeys[n] \in earlyKeys THEN <<doKeys[n]>>
    ELSE <<doKeys[n]>> \o KeysFrom(cmd, nextKey(cmd, n + 1))

\* C20 as stated: a request with a key that DoCommand does not recognize
\* returns an error and performs the action of none of its keys.
C20_UnrecognizedRejected ==
    \A p \in Procs :
        (DoReturning(p) /\ Top(p).arg \cap otherKeys # {}) =>
            /\ Top(p).r.err # "none"
            /\ Top(p).log = <<>>

\* C20: DoCommand returns "command not found" exactly for a request that has
\* none of the keys it tests, and then it has performed nothing.  A key it
\* does not test is ignored: a call that returns no error has performed the
\* actions of the tested keys of the request, in the order of the tests up
\* to the first that returns at once, and a call that fails in a branch has
\* performed those before it.
C20_NotFoundOnlyWithoutKnownKey ==
    \A p \in Procs :
        DoReturning(p) =>
            LET f == Top(p)
                all == KeysFrom(f.arg, nextKey(f.arg, 1))
            IN  /\ f.r.err = "command not found" <=> Recognized20(p) = {}
                /\ f.r.err = "command not found" => f.log = <<>>
                /\ f.r.err = "none" => f.log = all
                /\ Len(f.log) <= Len(all) /\ f.log = SubSeq(all, 1, Len(f.log))

\* the request of the gripper's goToPosition, setup_gripper with
\* move_gripper, returns no error and has moved the gripper
C20_Witness ==
    \E p \in Procs :
        /\ DoReturning(p)
        /\ Top(p).arg = {"setup_gripper", "move_gripper"}
        /\ Top(p).r.err = "none"
        /\ Top(p).log = <<"move_gripper">>

\* DoCommand is about to return to p the error of a value it rejected, the
\* value of the key k
Rejected(p, k) ==
    /\ DoReturning(p)
    /\ Top(p).r.err = "invalid"
    /\ doKeys[Top(p).n] = k

\* C21: a move_gripper whose position is not a number in the accepted range,
\* and a set_speed or set_acceleration that is not a positive number, is
\* rejected before the branch of that key has written a frame.
C21_ValidatedBeforeDispatch ==
    \A p \in Procs :
        \A k \in {"move_gripper", "set_speed", "set_acceleration"} :
            Rejected(p, k) => Top(p).rep = <<>>

InRun(p) == stack[p] # <<>> /\ Top(p).fn = "MoveThroughJointPositions"
Locals(stk) == <<Last(stk).r.speed, Last(stk).r.acceleration>>

\* the step in which createRawJointSteps of p completes its read of the profile
ReadCompletes(p) ==
    /\ At(p, "MoveThroughJointPositions", "acceleration")
    /\ Last(stack'[p]).pc = "opts"

\* C22: the pair of limits a trajectory generation run reads is the pair the
\* driver holds at the one moment the read completes, under any interleaving
\* with set_speed and set_acceleration, and a store made after the read does
\* not change the pair the run holds
C22_SnapshotIsConsistent ==
    [][\A p \in Procs :
          /\ ReadCompletes(p) => Locals(stack'[p]) = <<xSpeed, xAcceleration>>
          /\ (At(p, "MoveThroughJointPositions", "opts") /\ <<xSpeed, xAcceleration>>' # <<xSpeed, xAcceleration>>)
                => (stack'[p] # <<>> /\ Locals(stack'[p]) = Locals(stack[p]))]_vars

\* a run holds its snapshot while the stored profile has since been changed
C22_Witness ==
    \E p \in Procs :
        /\ At(p, "MoveThroughJointPositions", "opts")
        /\ Locals(stack[p]) # <<xSpeed, xAcceleration>>

TidOf(b) == Uint16At(b, 1)

\* C23: the frames on the wire carry transaction ids that each exceed the id
\* of the frame before by exactly 1 modulo 2^16, under any interleaving of
\* concurrent callers
C23_TidsConsecutive ==
    \A i \in 2..Len(wire) : TidOf(wire[i]) = Uint16(TidOf(wire[i - 1]) + 1)

Decoded(p) == At(p, "writeBytes", "ret")

\* C24: when the bytes cmd.bytes produced are decoded by responseInLock,
\* starting at their first byte, the decoded command has the transaction id, the protocol id, the register and
\* the params of the encoded one; the length field of the encoded frame is
\* 1 + len(params)
C24_RoundTrip ==
    \A p \in Procs :
        (Decoded(p) /\ Top(p).d = "echo" /\ Top(p).chk /\ Len(Top(p).arg.params) < 65535)
            => /\ Top(p).r.err = "none"
               /\ Top(p).r.c = Top(p).arg
               /\ Uint16At(Top(p).rep, 5) = 1 + Len(Top(p).arg.params)

\* a frame with a transaction id above 255 and two params has made the round trip
C24_Witness ==
    \E p \in Procs :
        /\ Decoded(p)
        /\ Top(p).d = "echo"
        /\ Top(p).chk
        /\ Top(p).arg.tid > 255
        /\ Len(Top(p).arg.params) = 2
        /\ Top(p).r.c = Top(p).arg

\* C25: a response whose declared length does not match the bytes on the
\* wire ends the call with an error, and none of its bytes is left to be
\* read as the start of a later response
C25_MismatchIsError ==
    \A p \in Procs :
        (Decoded(p) /\ Top(p).chk /\ Top(p).d \in {"short", "long"})
            => (Top(p).r.err # "none" /\ rxBuf = <<>>)

Min(a, b) == IF a < b THEN a ELSE b
Max(a, b) == IF a > b THEN a ELSE b

\* the limits a move with the options o has to use when the configured
\* limits are the pair cfg
EffectiveLimits(o, cfg) ==
    <<IF o.given /\ o.MaxVelRads # 0
      THEN Min(Max(o.MaxVelRads, DegToRad(minSpeed)), DegToRad(maxSpeed))
      ELSE cfg[1],
      IF o.given /\ o.MaxAccRads # 0
      THEN Min(o.MaxAccRads, DegToRad(maxAccel))
      ELSE cfg[2]>>

\* the step in which createRawJointSteps of p applies the options of the move
OptionsApplied(p) ==
    /\ At(p, "MoveThroughJointPositions", "opts")
    /\ Last(stack'[p]).pc = "generate"

C30_ProfileWithinLimits ==
    /\ DegToRad(minSpeed) <= xSpeed /\ xSpeed <= DegToRad(maxSpeed)
    /\ 0 < xAcceleration /\ xAcceleration <= DegToRad(maxAccel)

HasMoveJoints(p) == \E i \in 1..Len(sent[p]) : sent[p][i][1] = "MoveJoints"

\* the frames p wrote before its first MoveJoints frame
BeforeMoveJoints(p) ==
    LET i == CHOOSE k \in 1..Len(sent[p]) :
                 /\ sent[p][k][1] = "MoveJoints"
                 /\ \A j \in 1..(k - 1) : sent[p][j][1] # "MoveJoints"
    IN  SubSeq(sent[p], 1, i - 1)

\* the frames of the preparatory steps: SetMode(servo), GetError, SetState(0)
\* if the box was not ready, and JointPos for the joint-limit check of the
\* goal and for the current positions
PrepFrames(notReady) ==
    <<<<"SetMode", servoMotionMode>>, <<"GetError", 0>>>>
        \o (IF notReady THEN <<<<"SetState", 0>>>> ELSE <<>>)
        \o <<<<"JointPos", 0>>, <<"JointPos", 0>>>>

EndsWith(s, t) == Len(t) <= Len(s) /\ SubSeq(s, Len(s) - Len(t) + 1, Len(s)) = t

\* the record of MoveThroughJointPositions on the stack of p, if there is one
Moving(p) == \E k \in 1..Len(stack[p]) : stack[p][k].fn = "MoveThroughJointPositions"
MoveOf(p) == stack[p][CHOOSE k \in 1..Len(stack[p]) : stack[p][k].fn = "MoveThroughJointPositions"]

C27_BoundsWitness ==
    \E p \in Procs : At(p, "op", "ret") /\ Top(p).r.err = "bounds" /\ sent[p] # <<>>

MoveJointsIn(frames) == SelectSeq(frames, LAMBDA fr : fr[1] = "MoveJoints")

\* executeInputs is streaming on the stack stk: the index of its record, or 0
Streams(stk) == \E k \in 1..Len(stk) : stk[k].fn = "executeInputs" /\ stk[k].pc = "sent"
StreamOf(stk) == stk[CHOOSE k \in 1..Len(stk) : stk[k].fn = "executeInputs" /\ stk[k].pc = "sent"]

\* the operation of p ended with the error of a send, in this step
SendFailed(p) ==
    /\ Streams(stack[p])
    /\ ~Streams(stack'[p])
    /\ stack'[p] # <<>>
    /\ Last(stack'[p]).pc = "ret"
    /\ Last(stack'[p]).r.err \notin {"none", "ctx"}

\* C28: when the send of a step fails, executeInputs returns in that very
\* step of the goroutine: the MoveJoints frames written are those of the
\* steps up to the failed one, each once (the failed step is not sent again),
\* and no MoveJoints frame is written once executeInputs has returned (no
\* remaining step is sent)
C28_StreamStopsAtFailure ==
    [][\A p \in Procs :
          /\ SendFailed(p) =>
                /\ Len(MoveJointsIn(sent'[p])) \in {StreamOf(stack[p]).n - 1, StreamOf(stack[p]).n}
                /\ MoveJointsIn(sent'[p]) = StepFrames(Len(MoveJointsIn(sent'[p])))
          /\ (~Streams(stack[p]) /\ ~Streams(stack'[p])) =>
                MoveJointsIn(sent'[p]) \in {MoveJointsIn(sent[p]), <<>>}]_vars

\* the send of the first of NumSteps steps has failed after its frame was
\* written, and the operation is returning the error
C28_Witness ==
    \E p \in Procs :
        /\ At(p, "op", "ret")
        /\ opn[p] = "MoveThroughJointPositions"
        /\ Top(p).r.err \notin {"none", "ctx"}
        /\ MoveJointsOf(p) = StepFrames(1)
        /\ Last(sent[p])[1] # "MoveJoints"

\* p is in x.start: the record of start on its stack
InStart(stk) == \E k \in 1..Len(stk) : stk[k].fn = "start"

\* p is about to write the frame of one of the three commands of x.start:
\* writeBytes called by send called by start
StartWrites(p) ==
    /\ Len(stack[p]) >= 3
    /\ At(p, "writeBytes", "lock")
    /\ stack[p][Len(stack[p]) - 1].fn = "send"
    /\ stack[p][Len(stack[p]) - 2].fn = "start"
    /\ Len(sent'[p]) = Len(sent[p]) + 1

StartIndex(p) ==
    LET pc == stack[p][Len(stack[p]) - 2].pc
    IN  IF pc = "t" THEN 1 ELSE IF pc = "m" THEN 2 ELSE 3

\* C29: x.start writes nothing and returns when the arm is marked started;
\* otherwise it writes ToggleServo(enable), SetMode(servo) and SetState(0)
\* in that order, each only when the frames before it were written and
\* answered without error, and the arm is marked started only by a start
\* all three of whose commands succeeded
C29_StartSequence ==
    [][\A p \in Procs :
          /\ (At(p, "start", "entry") /\ started /\ stack'[p] # stack[p])
                => (sent'[p] = sent[p] /\ ~InStart(stack'[p]))
          /\ StartWrites(p)
                => EndsWith(sent'[p], SubSeq(StartFrames, 1, StartIndex(p)))
          /\ (InStart(stack[p]) /\ ~InStart(stack'[p]) /\ ~At(p, "start", "s"))
                => ~(started' /\ ~started)
          /\ (started' /\ ~started)
                => \E q \in Procs : At(q, "start", "s") /\ EndsWith(sent[q], StartFrames)]_vars

\* a start is about to mark the arm started after its three frames
C29_Witness ==
    \E p \in Procs : At(p, "start", "s") /\ ~started /\ EndsWith(sent[p], StartFrames)

\* C31: a call of send returns after a bounded number of frames whatever the
\* box answers: the recovery of a flagged response is not entered again for
\* a flagged response of its own SetMode and SetState commands, however
\* often the box flags (here: it never reaches the depth MaxNest, up to
\* which the box keeps flagging)
C31_RecoveryDoesNotNest ==
    \A p \in Procs : RecoveryDepth(stack[p]) < MaxNest

\* a caller whose status-checked response was flagged and whose GetError
\* query is not written yet: getErrorParams waits for moveLock
AwaitsGetError(p) ==
    /\ At(p, "writeBytes", "lock")
    /\ Top(p).reg = "GetError"

\* another caller's request is on the wire, its response not read yet
Exchanging(q) == moveLock = q /\ At(q, "writeBytes", "read")

\* C32: the GetError query that classifies a flagged response is the next
\* exchange on the wire after that response: while a caller is between its
\* flagged response and its query, no other caller exchanges a frame
C32_GetErrorIsNextExchange ==
    \A p, q \in Procs : (p # q /\ AwaitsGetError(p)) => ~Exchanging(q)

\* a MoveJoints frame of p is on the wire
MoveJointsOnWire(p) ==
    /\ At(p, "writeBytes", "read")
    /\ moveLock = p
    /\ Top(p).reg = "MoveJoints"

\* C33: no MoveJoints frame is written on a connection on which the enable
\* sequence has not been written: with a stream and readers only, the
\* connection carrying a MoveJoints frame is one on which x.start has
\* completed, so the arm is marked started
C33_StreamOnEnabledConnection ==
    \A p \in Procs : MoveJointsOnWire(p) => started

\* the final goal of p's call: the last waypoint
Goal(p) == Top(p).arg.inputSteps[Len(Top(p).arg.inputSteps)]

\* C34: the last element of every non-empty generated step sequence is the
\* final goal configuration, the last waypoint of the request
C34_LastStepIsGoal ==
    \A p \in Procs :
        (Generated(p) /\ Top(p).rep # <<>>) =>
            Top(p).rep[Len(Top(p).rep)] = Goal(p)

\* the summed dominant-joint displacement of p's request
TotalDisplacement(p) == displacementTotal(Top(p).arg.startInputs, Top(p).arg.inputSteps)

\* C35: for every move whose total dominant-joint displacement exceeds the
\* epsilon (one unit of the model is above it), the generated step sequence
\* is non-empty
C35_MoveHasSteps ==
    \A p \in Procs :
        (Generated(p) /\ TotalDisplacement(p) > 0) => Top(p).rep # <<>>

\* C36: no operation reads a response's params beyond their length: the
\* status check of send, JointPositions and getLoad return an error or read
\* only indices below the length
C36_ReadsWithinParams ==
    \A p \in Procs :
        (stack[p] # <<>> /\ Top(p).fn \in ParamOps /\ Top(p).pc = "ret") =>
            /\ Top(p).d # "beyond"
            /\ Top(p).n <= Len(Top(p).r.params)

\* responseInLock has asked for the params of a response whose header it read
ParamsRequested(p) == At(p, "writeBytes", "ret") /\ Top(p).log # <<>>

\* C37: the response decoder never asks for more param bytes than the
\* declared length minus one; for a length field of 0 it asks for none
C37_ParamsWithinLength ==
    \A p \in Procs :
        ParamsRequested(p) =>
            Top(p).log[1] = (IF Top(p).r.length = 0 THEN 0 ELSE Top(p).r.length - 1)

\* DoCommand of p is about to return an error
DoFails(p) == At(p, "DoCommand", "done") /\ Top(p).r.err # "none"

\* C38: DoCommand is all-or-nothing: when it returns an error, no store of
\* the call has changed the speed or the acceleration limit, also when a
\* later key fails validation after an earlier key was processed
C38_ErrorLeavesLimits ==
    \A p \in Procs :
        DoFails(p) => \A i \in 1..Len(Top(p).log) : Top(p).log[i].new = Top(p).log[i].old

\* p runs, or has run, one of the queries of DoCommand
Querying(p) == opn[p] \in QueryKeys

\* C39: the DoCommand queries get_state and get_error are read-only: the
\* frames they write are GetState and GetError queries, never a ClearError,
\* ClearWarn, SetMode or SetState frame, also while the device reports an
\* error
C39_QueriesAreReadOnly ==
    \A p \in Procs :
        Querying(p) =>
            \A i \in 1..Len(sent[p]) : sent[p][i][1] \in {"GetState", "GetError"}

\* p is in x.moveLock.Lock() of writeBytes
AwaitsMoveLock(p) == At(p, "writeBytes", "lock")

\* C40: a send issued while the connection is nil re-dials under moveLock
\* and returns: the reconnect never waits for the lock its own call holds,
\* also when the arm is not marked started at the time of the reconnect
C40_ReconnectDoesNotSelfLock ==
    \A p \in Procs : AwaitsMoveLock(p) => moveLock # p

====
